---- MODULE Spec2Model ----
(***************************************************************************)
(* A model of nestjs-pubsub-lib: the message callbacks of PubSubExplorer   *)
(* and PubsubBaseListener, listener setup against the Pub/Sub backend, and *)
(* PubsubPublisher.dispatchEvent.                                          *)
(***************************************************************************)
EXTENDS Integers, Sequences, FiniteSets, TLC

(***************************************************************************)
(* JavaScript values, as far as JSON.stringify and JSON.parse tell them    *)
(* apart.  k is the kind, a the atom (for null, booleans, numbers and      *)
(* strings), ks the keys of an object in insertion order and c the         *)
(* elements of an array or the values of an object.                        *)
(***************************************************************************)
Val(k, a, ks, c) == [k |-> k, a |-> a, ks |-> ks, c |-> c]
VNull == Val("null", "null", <<>>, <<>>)
VTrue == Val("bool", "true", <<>>, <<>>)
VNum(n) == Val("num", n, <<>>, <<>>)
VNaN == Val("num", "NaN", <<>>, <<>>)
VStr(s) == Val("str", s, <<>>, <<>>)
VUndef == Val("undef", "undefined", <<>>, <<>>)
VArr(c) == Val("arr", "", <<>>, c)
VObj(ks, c) == Val("obj", "", ks, c)

\* The tokens of a JSON text.
Tok(t, v) == [t |-> t, v |-> v]
LBrace == Tok("p", "{")
RBrace == Tok("p", "}")
LBrack == Tok("p", "[")
RBrack == Tok("p", "]")
Colon == Tok("p", ":")
Comma == Tok("p", ",")

\* What JSON.stringify returns when it returns no string (undefined).
NoString == <<Tok("none", "undefined")>>

RECURSIVE SerializeValue(_)
RECURSIVE SerializeElements(_, _)
RECURSIVE SerializeMembers(_, _, _, _)

\* The elements of an array from index i on, separated by commas.
SerializeElements(c, i) ==
  IF i > Len(c) THEN <<>>
  ELSE (IF i > 1 THEN <<Comma>> ELSE <<>>)
       \o SerializeValue(c[i]) \o SerializeElements(c, i + 1)

\* The members of an object from index i on; a member whose value is
\* undefined is left out.  first: no member has been written yet.
SerializeMembers(ks, c, i, first) ==
  IF i > Len(ks) THEN <<>>
  ELSE IF c[i].k = "undef" THEN SerializeMembers(ks, c, i + 1, first)
  ELSE (IF first THEN <<>> ELSE <<Comma>>)
       \o <<Tok("str", ks[i]), Colon>> \o SerializeValue(c[i])
       \o SerializeMembers(ks, c, i + 1, FALSE)

\* A value inside a JSON text: NaN becomes null, and so does undefined as
\* an array element.
SerializeValue(v) ==
  CASE v.k = "null" -> <<Tok("lit", "null")>>
    [] v.k = "bool" -> <<Tok("lit", v.a)>>
    [] v.k = "num" -> IF v.a = "NaN" THEN <<Tok("lit", "null")>>
                      ELSE <<Tok("num", v.a)>>
    [] v.k = "str" -> <<Tok("str", v.a)>>
    [] v.k = "undef" -> <<Tok("lit", "null")>>
    [] v.k = "arr" -> <<LBrack>> \o SerializeElements(v.c, 1) \o <<RBrack>>
    [] v.k = "obj" -> <<LBrace>> \o SerializeMembers(v.ks, v.c, 1, TRUE)
                      \o <<RBrace>>

\* JSON.stringify(data): undefined for the value undefined.
JsonStringify(v) == IF v.k = "undef" THEN NoString ELSE SerializeValue(v)

\* The number of characters of the strings and numerals that occur in the
\* payloads: "key" has 3, "value" and "other" have 5, all others have 1.
Chars(s) ==
  IF s = "key" THEN 3 ELSE IF s \in {"value", "other"} THEN 5 ELSE 1

RECURSIVE ByteLength(_)
\* dataBuffer.byteLength: a punctuation mark is one byte, null and true are
\* four, a string has its two quotes.
ByteLength(toks) ==
  IF toks = <<>> THEN 0
  ELSE (CASE Head(toks).t = "p" -> 1
          [] Head(toks).t = "lit" -> 4
          [] Head(toks).t = "num" -> Chars(Head(toks).v)
          [] Head(toks).t = "str" -> Chars(Head(toks).v) + 2
          [] OTHER -> 0)
       + ByteLength(Tail(toks))

\* Buffer.from(JSON.stringify(data)) throws a TypeError when stringify
\* returned undefined.
BufferFromThrows(s) == s = NoString

ParseFail == [ok |-> FALSE, v |-> VUndef, i |-> 0]
ParseOk(v, i) == [ok |-> TRUE, v |-> v, i |-> i]

\* The index of key in ks, or 0.
IndexOf(ks, key) ==
  IF \E j \in 1..Len(ks) : ks[j] = key
  THEN CHOOSE j \in 1..Len(ks) : ks[j] = key
  ELSE 0

RECURSIVE ParseValue(_, _)
RECURSIVE ParseElements(_, _, _)
RECURSIVE ParseMembers(_, _, _, _)

\* The elements of an array whose [ has been read; acc: those read so far.
ParseElements(toks, i, acc) ==
  LET r == ParseValue(toks, i) IN
  IF ~r.ok \/ r.i > Len(toks) THEN ParseFail
  ELSE IF toks[r.i] = Comma THEN ParseElements(toks, r.i + 1, Append(acc, r.v))
  ELSE IF toks[r.i] = RBrack THEN ParseOk(VArr(Append(acc, r.v)), r.i + 1)
  ELSE ParseFail

\* The members of an object whose { has been read.  A key that comes again
\* replaces the value it had.
ParseMembers(toks, i, ks, acc) ==
  IF i + 1 > Len(toks) \/ toks[i].t # "str" \/ toks[i + 1] # Colon
  THEN ParseFail
  ELSE LET r == ParseValue(toks, i + 2)
           j == IndexOf(ks, toks[i].v)
           ks2 == IF j = 0 THEN Append(ks, toks[i].v) ELSE ks
           acc2 == IF j = 0 THEN Append(acc, r.v)
                   ELSE [acc EXCEPT ![j] = r.v]
       IN IF ~r.ok \/ r.i > Len(toks) THEN ParseFail
          ELSE IF toks[r.i] = Comma THEN ParseMembers(toks, r.i + 1, ks2, acc2)
          ELSE IF toks[r.i] = RBrace THEN ParseOk(VObj(ks2, acc2), r.i + 1)
          ELSE ParseFail

\* One JSON value starting at token i; i of the result is the next token.
ParseValue(toks, i) ==
  IF i > Len(toks) THEN ParseFail
  ELSE LET t == toks[i] IN
    CASE t.t = "lit" /\ t.v = "null" -> ParseOk(VNull, i + 1)
      [] t.t = "lit" /\ t.v # "null" -> ParseOk(Val("bool", t.v, <<>>, <<>>), i + 1)
      [] t.t = "num" -> ParseOk(VNum(t.v), i + 1)
      [] t.t = "str" -> ParseOk(VStr(t.v), i + 1)
      [] t = LBrack ->
           IF i + 1 <= Len(toks) /\ toks[i + 1] = RBrack
           THEN ParseOk(VArr(<<>>), i + 2)
           ELSE ParseElements(toks, i + 1, <<>>)
      [] t = LBrace ->
           IF i + 1 <= Len(toks) /\ toks[i + 1] = RBrace
           THEN ParseOk(VObj(<<>>, <<>>), i + 2)
           ELSE ParseMembers(toks, i + 1, <<>>, <<>>)
      [] OTHER -> ParseFail

\* A parser that keeps only the top level of the value it reads (children of
\* an array or object are dropped); JsonParse below is what the callbacks use.
JsonParseShallow(toks) ==
  LET r == ParseValue(toks, 1) IN
  IF r.ok /\ r.i = Len(toks) + 1
  THEN [ok |-> TRUE, v |-> [r.v EXCEPT !.ks = <<>>, !.c = <<>>]]
  ELSE [ok |-> FALSE, v |-> VUndef]

\* JSON.parse(text): ok is FALSE where JSON.parse throws a SyntaxError.
JsonParse(toks) ==
  LET r == ParseValue(toks, 1) IN
  IF r.ok /\ r.i = Len(toks) + 1 THEN [ok |-> TRUE, v |-> r.v]
  ELSE [ok |-> FALSE, v |-> VUndef]

RECURSIVE IsJson(_)
\* v is a JSON value: no undefined and no NaN anywhere in it, and no key
\* twice in an object.
IsJson(v) ==
  /\ v.k \in {"null", "bool", "num", "str", "arr", "obj"}
  /\ v.k = "num" => v.a # "NaN"
  /\ \A i, j \in 1..Len(v.ks) : v.ks[i] = v.ks[j] => i = j
  /\ \A i \in 1..Len(v.c) : IsJson(v.c[i])

RECURSIVE DeepEqual(_, _)
\* Recursive equality as the tests' toEqual / toHaveBeenCalledWith take it:
\* object keys in any order, properties that are undefined ignored.
DeepEqual(v, w) ==
  LET Keys(o) == {o.ks[i] : i \in {j \in 1..Len(o.ks) : o.c[j].k # "undef"}}
      At(o, key) == o.c[IndexOf(o.ks, key)]
  IN /\ v.k = w.k
     /\ v.a = w.a
     /\ v.k = "arr" =>
          /\ Len(v.c) = Len(w.c)
          /\ \A i \in 1..Len(v.c) : DeepEqual(v.c[i], w.c[i])
     /\ v.k = "obj" =>
          /\ Keys(v) = Keys(w)
          /\ \A key \in Keys(v) : DeepEqual(At(v, key), At(w, key))

(***************************************************************************)
(* The payloads and message bodies of the model.                           *)
(***************************************************************************)
MaxLen == 1

JsonLeaves == {VNull, VTrue, VNum("1"), VStr("a")}
Leaves == JsonLeaves \cup {VUndef, VNaN}
KeyNames == <<"a", "b", "c", "d">>
LeafSeqs == UNION {[1..n -> Leaves] : n \in 0..MaxLen}
Nested == {VArr(<<VObj(<<"a">>, <<VNum("1")>>)>>),
           VArr(<<VNull, VTrue>>),
           VArr(<<VNaN, VStr("a")>>),
           VObj(<<"a", "b">>, <<VNum("1"), VUndef>>),
           VObj(<<"a">>, <<VArr(<<VNum("1"), VStr("a")>>)>>),
           VObj(<<"b", "a">>, <<VObj(<<>>, <<>>), VArr(<<VUndef>>)>>)}
\* What application code may hand to dispatchEvent.
Payloads ==
  Leaves \cup Nested
  \cup {VArr(s) : s \in LeafSeqs}
  \cup {VObj(SubSeq(KeyNames, 1, Len(s)), s) : s \in LeafSeqs}

\* Message bodies that are not JSON texts.
Malformed ==
  { <<>>,
    <<LBrace, Tok("str", "this is not valid json"), RBrace>>,
    <<LBrack, Tok("num", "1")>>,
    <<Tok("num", "1"), Tok("num", "1")>>,
    <<LBrack, Tok("num", "1"), Comma, RBrack>>,
    <<Tok("word", "undefined")>> }

\* No payload: the body of the message was not made by encoding a value.
NoPayload == Val("none", "", <<>>, <<>>)

(***************************************************************************)
(* Failure values and normalizeError.                                      *)
(***************************************************************************)
Undefined == "<undefined>"
NoError == [type |-> "none", message |-> Undefined, names |-> <<>>,
            stack |-> Undefined, str |-> Undefined]
\* new Error(message): an Error instance with its stack.
JsError(message, stack) ==
  [type |-> "Error", message |-> message, names |-> <<>>, stack |-> stack,
   str |-> message]
\* The SyntaxError of JSON.parse and the TypeError of calling a method that
\* is not there.
SyntaxErr == JsError("Unexpected token in JSON", "SyntaxError: at JSON.parse")
NoHandleErr == JsError("instance.handle is not a function", "TypeError: at setupHandler")
\* What handler code may throw or reject with: an Error, and a bare string.
ErrFail == JsError("Fail", "Error: Fail at handle")
ErrString == [type |-> "string", message |-> Undefined, names |-> <<>>,
              stack |-> Undefined, str |-> "oops"]
HandlerErrors == {ErrFail, ErrString}

\* A property holding a value that is not a string (a number, an object),
\* and a String(error) that throws (an object without toString, or with
\* one that throws).
NonString == "<non-string>"
Throws == "<throws>"
IsString(x) == x \notin {Undefined, NonString, Throws}
\* A value that is no Error instance: typeof, its message and stack
\* properties (Undefined when it has none) and what String() makes of it.
Value(type, message, stack, str) ==
  [type |-> type, message |-> message, names |-> <<>>, stack |-> stack, str |-> str]
\* Anything a catch block may be handed: Error instances, with and without
\* stack and with a message that was set to something else than a string;
\* objects with a message, with a stack that is a string, is none, or is
\* missing; objects without a string message; objects that do not convert
\* to a string; null, undefined, a string and a number.
FailureValues ==
  {ErrFail, SyntaxErr,
   [ErrFail EXCEPT !.stack = Undefined],
   [ErrFail EXCEPT !.message = NonString],
   Value("object", "bad", "trace", "[object Object]"),
   Value("object", "bad", NonString, "[object Object]"),
   Value("object", "bad", Undefined, "[object Object]"),
   Value("object", NonString, "trace", "[object Object]"),
   Value("object", Undefined, Undefined, "[object Object]"),
   Value("object", Undefined, Undefined, Throws),
   Value("null", Undefined, Undefined, "null"),
   Value("undefined", Undefined, Undefined, "undefined"),
   Value("number", Undefined, Undefined, "42"),
   ErrString}

\* normalizeError: an Error instance gives its message and stack as they
\* are; an object whose message is a string gives that and its stack when
\* that is a string; anything else gives String(error), or a fixed text
\* when the conversion throws.  (A stack that is left out and one that is
\* undefined are the same Undefined here.)
normalizeError(error) ==
  IF error.type = "Error"
  THEN [message |-> error.message, names |-> error.names, stack |-> error.stack]
  ELSE IF error.type = "object" /\ IsString(error.message)
  THEN [message |-> error.message, names |-> error.names,
        stack |-> IF IsString(error.stack) THEN error.stack ELSE Undefined]
  ELSE [message |-> IF error.str = Throws
                    THEN "An unstringifiable error occurred" ELSE error.str,
        names |-> <<>>, stack |-> Undefined]

(***************************************************************************)
(* Listeners.  A and N are classes under @PubSubListener, found by         *)
(* PubSubExplorer; N's instance has no handle method.  B extends           *)
(* PubsubBaseListener.                                                     *)
(***************************************************************************)
Listeners == {"A", "N", "B"}
ListenerKind(l) == IF l = "B" THEN "base" ELSE "explorer"
HasHandle(l) == l # "N"

Msgs == {"m1", "m2"}
\* The bodies message m may carry, each with the payload it encodes:
\* JSON.stringify of a payload, as dispatchEvent publishes it, or a body
\* that is no JSON text.
SampleBodies ==
  {[payload |-> VObj(<<"a">>, <<VNum("1")>>),
    data |-> JsonStringify(VObj(<<"a">>, <<VNum("1")>>))],
   [payload |-> NoPayload, data |-> <<LBrack, Tok("num", "1")>>]}
Bodies(m) ==
  IF m = "m1"
  THEN {[payload |-> P, data |-> JsonStringify(P)] : P \in Payloads \ {VUndef}}
       \cup {[payload |-> NoPayload, data |-> d] : d \in Malformed}
  ELSE SampleBodies

\* How often a handler calls ack() or nack() on the raw message it is given.
MaxHandlerUses == 1

VARIABLES
  msg,              \* per message: where its callback is and what was done to it
  callbacks,        \* per listener: the events its subscription has a callback for
  autoCreateTopics, \* options.autoCreateTopics of the resolved configuration
  topics,           \* backend: the topics that exist
  subs,             \* backend: the subscriptions that exist, with their settings
  proc,             \* per asynchronous call of the library: where it is
  subscriptions,    \* PubSubExplorer.subscriptions, the recorded handles
  config,           \* the options the application passes to PubsubModule.register
  declared,         \* per listener: the subscriptionOptions it declares
  handle,           \* per listener: what happened to its subscription handle
  module,           \* PubsubModule: how far its registration has come
  naming            \* per listener: the topic and subscription it names

appVars == <<config, declared, handle, module, naming>>
vars == <<msg, callbacks, autoCreateTopics, topics, subs, proc, subscriptions,
          config, declared, handle, module, naming>>
setupVars == <<autoCreateTopics, topics, subs, proc, subscriptions, appVars>>

IdleMsg ==
  [pc |-> "idle", listener |-> "none", payload |-> NoPayload, data |-> <<>>,
   arg |-> NoPayload, argMsg |-> "none", handlerCalls |-> 0,
   coreAck |-> 0, coreNack |-> 0, hAck |-> 0, hNack |-> 0,
   path |-> "none", err |-> NoError, log |-> <<>>]

LogEntry(level, text, message, stack) ==
  [level |-> level, text |-> text, message |-> message, stack |-> stack]

\* PubsubBaseListener.parsePayload: JSON.parse(data.toString("utf-8")).
parsePayload(data) == JsonParse(data)

\* The callback starts running for message m, delivered to listener l with
\* body b.
Received(m, l, b) ==
  [IdleMsg EXCEPT !.listener = l, !.payload = b.payload, !.data = b.data]

\* instance.handle(payload, message) / this.handlePayload(parsedPayload,
\* message) is entered and the callback awaits it.
InvokeHandler(r, m, payload) ==
  [r EXCEPT !.pc = "handling", !.arg = payload, !.argMsg = m,
            !.handlerCalls = @ + 1]

\* The catch block without its message.nack(): what the Explorer would do if
\* it only logged the failure.
ExplorerCatchBlockNoNack(r, err, path) ==
  [r EXCEPT !.pc = "done", !.path = path, !.err = err]

\* A catch block that nacks and throws the error again, which rejects the
\* promise of the callback.
ExplorerCatchBlockRethrow(r, err, path) ==
  [r EXCEPT !.pc = "crashed", !.path = path, !.err = err, !.coreNack = @ + 1]

\* The catch block of the Explorer's callback: log, then message.nack().
ExplorerCatchBlock(r, err, path) ==
  [r EXCEPT !.pc = "done", !.path = path, !.err = err,
            !.log = Append(@, LogEntry("error", "Handler failed",
                                        normalizeError(err).message,
                                        normalizeError(err).stack)),
            !.coreNack = @ + 1]

\* A subscription that hands over a message only when no handler is
\* suspended: one message at a time.
CanDeliverSerialized(m, l) ==
  /\ msg[m].pc = "idle"
  /\ "message" \in callbacks[l]
  /\ ~handle[l].closed
  /\ \A n \in DOMAIN msg : msg[n].pc # "handling"

\* A subscription of the Explorer that hands over messages only once
\* onModuleInit has resolved.
CanDeliverOnceStarted(m, l) ==
  /\ msg[m].pc = "idle"
  /\ "message" \in callbacks[l]
  /\ ~handle[l].closed
  /\ proc["x"].pc = "done"

\* subscription.on('message', callback): the emitter calls the callback for
\* message m whenever a callback is attached and the handle is open; the
\* library keeps no lock and no count of messages in flight.
CanDeliver(m, l) ==
  /\ msg[m].pc = "idle"
  /\ "message" \in callbacks[l]
  /\ ~handle[l].closed

\* PubSubExplorer.setupHandler's 'message' callback up to its await: parse
\* the body and call instance.handle; a SyntaxError, or the TypeError of a
\* missing handle, goes to the catch block at once.
ExplorerOnMessage(m, l, b) ==
  /\ ListenerKind(l) = "explorer"
  /\ CanDeliver(m, l)
  /\ LET r == Received(m, l, b)
         p == JsonParse(b.data)
     IN msg' = [msg EXCEPT ![m] =
          IF ~p.ok THEN ExplorerCatchBlock(r, SyntaxErr, "parseFailed")
          ELSE IF ~HasHandle(l) THEN ExplorerCatchBlock(r, NoHandleErr, "handlerFailed")
          ELSE InvokeHandler(r, m, p.v)]
  /\ UNCHANGED <<callbacks, setupVars>>

\* The callback resumes after instance.handle rejected (or threw).
ExplorerOnHandlerRejected(m) ==
  /\ msg[m].pc = "rejected"
  /\ ListenerKind(msg[m].listener) = "explorer"
  /\ msg' = [msg EXCEPT ![m] = ExplorerCatchBlock(@, @.err, "handlerFailed")]
  /\ UNCHANGED <<callbacks, setupVars>>

\* The parse catch without its message.nack().
BaseParseFailedNoNack(r, err) ==
  [r EXCEPT !.pc = "done", !.path = "parseFailed", !.err = err]

\* PubsubBaseListener.onMessage's first catch block: the parse failed.
BaseParseFailed(r, err) ==
  [r EXCEPT !.pc = "done", !.path = "parseFailed", !.err = err,
            !.log = Append(@, LogEntry("error", "Failed to parse Pub/Sub message data. Message will be nacked.",
                                        Undefined, normalizeError(err).stack)),
            !.coreNack = @ + 1]

\* The handler catch with a second message.nack().
BaseHandlerFailedTwice(r, err) ==
  [r EXCEPT !.pc = "done", !.path = "handlerFailed", !.err = err,
            !.coreNack = @ + 2]

\* A handler catch that calls handlePayload again after a failure.
BaseHandlerFailedRetry(r, err) ==
  [r EXCEPT !.pc = "handling", !.err = err, !.handlerCalls = @ + 1]

\* PubsubBaseListener.onMessage's second catch block: handlePayload failed.
BaseHandlerFailed(r, err) ==
  [r EXCEPT !.pc = "done", !.path = "handlerFailed", !.err = err,
            !.log = Append(@, LogEntry("error", "Error handling message",
                                        normalizeError(err).message,
                                        normalizeError(err).stack)),
            !.coreNack = @ + 1]

\* The catch of listenForMessages' callback around onMessage: it runs only
\* when onMessage itself rejects, which neither of onMessage's catch blocks
\* lets happen.
ListenCatch(r, onMessageRejected) ==
  IF onMessageRejected
  THEN [r EXCEPT !.log = Append(@, LogEntry("error", "Error handling message id", Undefined, Undefined)),
                 !.coreNack = @ + 1]
  ELSE r

\* PubsubBaseListener's 'message' callback up to its await: onMessage parses
\* the body and calls handlePayload.
BaseOnMessage(m, l, b) ==
  /\ ListenerKind(l) = "base"
  /\ CanDeliver(m, l)
  /\ LET r == Received(m, l, b)
         p == parsePayload(b.data)
     IN msg' = [msg EXCEPT ![m] =
          IF ~p.ok THEN ListenCatch(BaseParseFailed(r, SyntaxErr), FALSE)
          ELSE InvokeHandler(r, m, p.v)]
  /\ UNCHANGED <<callbacks, setupVars>>

\* onMessage resumes after handlePayload rejected (or threw).
BaseOnHandlerRejected(m) ==
  /\ msg[m].pc = "rejected"
  /\ ListenerKind(msg[m].listener) = "base"
  /\ msg' = [msg EXCEPT ![m] = ListenCatch(BaseHandlerFailed(@, @.err), FALSE)]
  /\ UNCHANGED <<callbacks, setupVars>>

\* A core that acknowledges on behalf of a handler that resolved.
OnHandlerResolvedAutoAck(r) ==
  [r EXCEPT !.pc = "done", !.path = "handlerOk", !.coreAck = @ + 1]

\* A core that nacks although the handler resolved.
OnHandlerResolvedNack(r) ==
  [r EXCEPT !.pc = "done", !.path = "handlerOk", !.coreNack = @ + 1]

\* The callback resumes after the handler returned (its promise resolved):
\* nothing is left to do.
OnHandlerResolved(r) == [r EXCEPT !.pc = "done", !.path = "handlerOk"]

(***************************************************************************)
(* The handler: application code, which is given the raw message and may   *)
(* ack or nack it, and then returns, throws, or never returns.             *)
(***************************************************************************)
HandlerAck(m) ==
  /\ msg[m].pc = "handling"
  /\ msg[m].hAck + msg[m].hNack < MaxHandlerUses
  /\ msg' = [msg EXCEPT ![m].hAck = @ + 1]
  /\ UNCHANGED <<callbacks, setupVars>>

HandlerNack(m) ==
  /\ msg[m].pc = "handling"
  /\ msg[m].hAck + msg[m].hNack < MaxHandlerUses
  /\ msg' = [msg EXCEPT ![m].hNack = @ + 1]
  /\ UNCHANGED <<callbacks, setupVars>>

HandlerReturn(m) ==
  /\ msg[m].pc = "handling"
  /\ msg' = [msg EXCEPT ![m] = OnHandlerResolved(@)]
  /\ UNCHANGED <<callbacks, setupVars>>

HandlerThrow(m, e) ==
  /\ msg[m].pc = "handling"
  /\ msg' = [msg EXCEPT ![m] = [@ EXCEPT !.pc = "rejected", !.err = e]]
  /\ UNCHANGED <<callbacks, setupVars>>

(***************************************************************************)
(* The backend, the declared listeners and the calls the library makes.   *)
(***************************************************************************)
Topics == {"orders", "users"}
SubNames == {"orders-sub", "users-sub", "audit-sub"}

\* The object without properties; also what spreading undefined gives.
EmptyRec == [k \in {} |-> 0]
\* {...a, ...b}
Spread(a, b) ==
  [k \in DOMAIN a \cup DOMAIN b |-> IF k \in DOMAIN b THEN b[k] ELSE a[k]]

\* PubSubExplorer.defaultSubscriptionOptions, and defaultOptions of
\* PubsubBaseListener.getMergedSubscriptionOptions.
defaultSubscriptionOptions ==
  [ackDeadlineSeconds |-> 60,
   retryPolicy |-> [minimumBackoff |-> [seconds |-> 10],
                    maximumBackoff |-> [seconds |-> 600]],
   messageRetentionDuration |-> [seconds |-> 86400 * 7]]

\* A merge of the top level only: a declared retryPolicy replaces the
\* default one whole.
MergeTopLevelOnly(defaults, subscriptionOptions) ==
  Spread(defaults, subscriptionOptions)

\* The options an object merge with a merged retryPolicy gives.
MergeWithRetryPolicy(defaults, subscriptionOptions) ==
  LET top == Spread(defaults, subscriptionOptions)
      retry == Spread(defaults.retryPolicy,
                      IF "retryPolicy" \in DOMAIN subscriptionOptions
                      THEN subscriptionOptions.retryPolicy ELSE EmptyRec)
  IN [k \in DOMAIN top \cup {"retryPolicy"} |->
        IF k = "retryPolicy" THEN retry ELSE top[k]]

\* mergedOptions of PubSubExplorer.getOrCreateSubscription.
ExplorerMergedOptions(meta) ==
  MergeWithRetryPolicy(defaultSubscriptionOptions, meta.subscriptionOptions)

\* PubsubBaseListener.getMergedSubscriptionOptions.
getMergedSubscriptionOptions(subscriptionOptions) ==
  MergeWithRetryPolicy(defaultSubscriptionOptions, subscriptionOptions)

\* The providers the DiscoveryService yields, in registry order: wrappers
\* of instance A (decorated), of no instance, of U (not decorated) and of N
\* (decorated).
Providers ==
  <<[instance |-> "A"], [instance |-> "none"], [instance |-> "U"],
    [instance |-> "N"]>>
\* reflector.get(PUBSUB_LISTENER_METADATA, instance.constructor)
HasMetadata(instance) == instance \in {"A", "N"}
Metadata(instance) ==
  IF instance = "A"
  THEN [topicName |-> naming["A"].topicName,
        subscriptionName |-> naming["A"].subscriptionName,
        subscriptionOptions |-> declared["A"]]
  ELSE [topicName |-> naming["N"].topicName,
        subscriptionName |-> naming["N"].subscriptionName,
        subscriptionOptions |-> declared["N"]]
\* The fields of the PubsubBaseListener subclass B.
BaseListenerFields ==
  [topicName |-> naming["B"].topicName,
   subscriptionName |-> naming["B"].subscriptionName,
   subscriptionOptions |-> declared["B"]]
\* The names the three listeners declare unless a specification says
\* otherwise, and those of an application in which N names A's subscription.
DeclaredNames ==
  [l \in Listeners |->
     IF l = "A" THEN [topicName |-> "orders", subscriptionName |-> "orders-sub"]
     ELSE IF l = "B" THEN [topicName |-> "orders", subscriptionName |-> "audit-sub"]
     ELSE [topicName |-> "users", subscriptionName |-> "users-sub"]]
SharedNames == [DeclaredNames EXCEPT !["N"] = DeclaredNames["A"]]
\* The base listener B declaring the topic and the subscription of A.
BaseSharesNames == [DeclaredNames EXCEPT !["B"] = DeclaredNames["A"]]
\* The subscriptionOptions a listener may declare: any of the fields with a
\* default, a retryPolicy with any of its two bounds, and a field that has
\* no default; a nested record may name a key (nanos) other than the one
\* the default has.  (A listener that declares none spreads as the empty
\* object.)
Overrides ==
  {Spread(Spread(Spread(a, r), d), e) :
     a \in {EmptyRec, [ackDeadlineSeconds |-> 30]},
     r \in {EmptyRec} \cup
           {[retryPolicy |-> p] :
              p \in {EmptyRec,
                     [minimumBackoff |-> [seconds |-> 5]],
                     [minimumBackoff |-> [nanos |-> 500]],
                     [maximumBackoff |-> [seconds |-> 100]],
                     [minimumBackoff |-> [seconds |-> 5],
                      maximumBackoff |-> [seconds |-> 100]]}},
     d \in {EmptyRec, [messageRetentionDuration |-> [seconds |-> 3600]],
            [messageRetentionDuration |-> [nanos |-> 500]]},
     e \in {EmptyRec, [enableMessageOrdering |-> "true"]}}

\* What the three listeners declare unless a specification says otherwise:
\* A a longer ack deadline, N nothing, B a shorter minimum backoff.
DeclaredOptions ==
  [l \in Listeners |->
     IF l = "A" THEN [ackDeadlineSeconds |-> 300]
     ELSE IF l = "B" THEN [retryPolicy |-> [minimumBackoff |-> [seconds |-> 5]]]
     ELSE EmptyRec]

(***************************************************************************)
(* The module's configuration.  A value is written as JavaScript prints    *)
(* it: "true", "false", "undefined"; a field the caller leaves out is      *)
(* absent from the record.                                                 *)
(***************************************************************************)
\* What the application may pass to PubsubModule.register.
Configs ==
  {Spread(Spread(Spread([projectId |-> "p1"], a), e), g) :
     a \in {EmptyRec} \cup {[autoCreateTopics |-> v] : v \in {"true", "false", "undefined"}},
     e \in {EmptyRec, [emulatorMode |-> "false"],
            [emulatorMode |-> "true", port |-> "8085"], [emulatorMode |-> "true"]},
     g \in {EmptyRec, [logger |-> "custom"]}}
\* The configurations the provisioning runs are made under.
PlainConfigs == {[projectId |-> "p1"], [projectId |-> "p1", autoCreateTopics |-> "true"]}

\* if (x): the values that count as true.
Truthy(x) == x \notin {"false", "undefined", "null", "0", ""}

\* A merge in which a default wins over what the caller supplies.
MergeDefaultOptionsDefaultsLast(options) ==
  Spread(options, [emulatorMode |-> "false", autoCreateTopics |-> "false"])

\* PubsubModule.mergeDefaultOptions: { emulatorMode: false,
\* autoCreateTopics: false, ...options }.
mergeDefaultOptions(options) ==
  Spread([emulatorMode |-> "false", autoCreateTopics |-> "false"], options)

\* mergedOptions of the register() that builds its providers inline: the
\* same merge, and a logger of its own when the caller gives none.
RegisterMergedOptions(options) ==
  Spread(mergeDefaultOptions(options),
         [logger |-> IF "logger" \in DOMAIN options /\ Truthy(options.logger)
                     THEN options.logger ELSE "Logger(PubsubModule)"])

\* options.k; undefined when the field is absent.
Get(options, k) == IF k \in DOMAIN options THEN options[k] ELSE "undefined"

\* No client; also: no resolved configuration.
NoClient == EmptyRec
PortErr == JsError("PubsubModule: Emulator mode requires a port.", "Error: at createClient")

\* PubsubModule.createClient: the emulator needs a port; otherwise a client
\* for the cloud with whatever credentials are given.
createClient(options) ==
  IF Truthy(Get(options, "emulatorMode"))
  THEN IF ~Truthy(Get(options, "port"))
       THEN [ok |-> FALSE, client |-> NoClient, err |-> PortErr]
       ELSE [ok |-> TRUE, err |-> NoError,
             client |-> [projectId |-> Get(options, "projectId"),
                         apiEndpoint |-> Get(options, "port")]]
  ELSE [ok |-> TRUE, err |-> NoError,
        client |-> [projectId |-> Get(options, "projectId"),
                    keyFilename |-> Get(options, "keyFilename"),
                    credentials |-> Get(options, "credentials")]]

\* useFactory of pubSubClientProvider in the register() that builds its
\* providers inline: it passes mergedOptions.port on as it is.
RegisterCreateClient(mergedOptions) ==
  [ok |-> TRUE, err |-> NoError,
   client |->
     IF Truthy(Get(mergedOptions, "emulatorMode"))
     THEN [emulatorMode |-> "true", port |-> Get(mergedOptions, "port"),
           projectId |-> Get(mergedOptions, "projectId")]
     ELSE Spread([projectId |-> Get(mergedOptions, "projectId")],
                 IF Truthy(Get(mergedOptions, "keyFilename"))
                 THEN [keyFilename |-> mergedOptions.keyFilename]
                 ELSE IF Truthy(Get(mergedOptions, "credentials"))
                 THEN [credentials |-> mergedOptions.credentials]
                 ELSE EmptyRec)]

\* How many times the application is started against the same backend.
MaxRuns == 2

\* The module before registration.  variant: "full" is the module with
\* register, registerAsync and the Explorer among its providers, "inline" the
\* one whose register() builds the providers itself.
NewModule(variant, entry) ==
  [pc |-> "unregistered", variant |-> variant, entry |-> entry,
   resolved |-> NoClient, client |-> NoClient, err |-> NoError,
   run |-> 1, ensured |-> {}]
\* run counts the starts of the application; ensured is history: the topics
\* and subscriptions that calls which ran to their end have dealt with.
\* register(options), or the factory of PUBSUB_MERGED_OPTIONS that
\* registerAsync provides: the merged options.
Registered(m, options) ==
  [m EXCEPT !.pc = "registered",
            !.resolved = IF m.variant = "full" THEN mergeDefaultOptions(options)
                         ELSE RegisterMergedOptions(options)]
\* The factory of PUBSUB_CLIENT runs; when it throws, startup is over.
ClientCreated(m) ==
  LET c == IF m.variant = "full" THEN createClient(m.resolved)
           ELSE RegisterCreateClient(m.resolved)
  IN [m EXCEPT !.pc = IF c.ok THEN "ready" ELSE "failed",
               !.client = c.client, !.err = c.err]

\* A module whose default for autoCreateTopics is true.
AutoCreateDefaultTrue(options) ==
  Truthy(Spread([autoCreateTopics |-> "true"], options).autoCreateTopics)

\* this.options.autoCreateTopics as the services test it.
AutoCreateOf(options) == Truthy(mergeDefaultOptions(options).autoCreateTopics)

\* The settings of a subscription that exists before the library starts.
ExistingOptions == [ackDeadlineSeconds |-> 30]

\* What dispatchEvent is called with.
PublishInputs ==
  [topicName : Topics,
   payload : {VObj(<<"key">>, <<VStr("value")>>), VUndef},
   options : {EmptyRec,
              [attributes |-> [traceId |-> "123"], logPayload |-> "true"],
              [logPayload |-> "false"]}]
\* The calls of dispatchEvent that the publisher is examined under: payloads
\* of equal and of different encoded size, a payload that does not
\* serialize, and options with logPayload true, false, a truthy value that
\* is not true, or absent.
PublishCalls ==
  [topicName : Topics,
   payload : {VObj(<<"key">>, <<VStr("value")>>),
              VObj(<<"key">>, <<VStr("other")>>),
              VObj(<<"key", "n">>, <<VStr("value"), VNum("1")>>),
              VUndef},
   options : {EmptyRec,
              [attributes |-> [traceId |-> "123"], logPayload |-> "true"],
              [logPayload |-> "false"],
              [attributes |-> [traceId |-> "123"], logPayload |-> "yes"]}]
NoInput == [topicName |-> "none", payload |-> NoPayload, options |-> EmptyRec]
\* The message ids the backend answers publishMessage with.
MessageId == "message-123"
MessageIds == {MessageId, "message-456"}

\* Failures of backend calls.
BackendErr == JsError("14 UNAVAILABLE", "Error: 14 UNAVAILABLE at callback")
AlreadyExistsErr == JsError("6 ALREADY_EXISTS", "Error: 6 ALREADY_EXISTS at callback")
BufferTypeErr == JsError("The first argument must be of type string", "TypeError: at Buffer.from")
MissingTopicErr(message, topicName) ==
  [JsError(message, "Error: Topic does not exist") EXCEPT !.names = <<topicName>>]

\* The asynchronous calls of the model: PubSubExplorer.onModuleInit,
\* onModuleInit of the base listener B, and the dispatchEvent calls of two
\* callers, of which q calls only where calls are made side by side.
Callers == {"p", "q"}
Procs == {"x", "b"} \cup Callers
IdleProc ==
  [pc |-> "idle", i |-> 0, listener |-> "none", topic |-> "none",
   sub |-> "none", options |-> EmptyRec, input |-> NoInput,
   err |-> NoError, calls |-> <<>>, log |-> <<>>, result |-> Undefined]

\* A subscription handle nobody has closed and that reported no error.
IdleHandle ==
  [closeCalls |-> 0, closed |-> FALSE, errorsLogged |-> 0, errorsUnhandled |-> 0]

\* A call on the backend client made for listener (or caller) tag; res is
\* its answer once it is there.
Issue(r, op, arg) ==
  [r EXCEPT !.calls = Append(@, [tag |-> r.listener, op |-> op,
                                 target |-> IF op \in {"topic.exists", "topic.create", "topic.publishMessage"}
                                            THEN r.topic ELSE r.sub,
                                 arg |-> arg, res |-> "pending"])]
Respond(r, res) == [r EXCEPT !.calls[Len(r.calls)].res = res]
Log(r, level, text, names, stack) ==
  [r EXCEPT !.log = Append(@, [level |-> level, text |-> text,
                               names |-> names, stack |-> stack])]
Await(r, pc) == [r EXCEPT !.pc = pc]
\* What the backend answers: the call is served, or fails on the way.
Outcomes == {"ok", "error"}

(***************************************************************************)
(* PubSubExplorer: onModuleInit, setupHandler, getOrCreateTopic and        *)
(* getOrCreateSubscription, cut at their awaits.                           *)
(***************************************************************************)
\* A loop that takes every provider with an instance, decorated or not.
NextWithInstance(from) ==
  LET js == {j \in from..Len(Providers) : Providers[j].instance # "none"}
  IN IF js = {} THEN 0 ELSE CHOOSE j \in js : \A k \in js : j <= k

\* A loop that skips decorated instances without a handle method.
NextDecoratedWithHandle(from) ==
  LET js == {j \in from..Len(Providers) :
               /\ Providers[j].instance # "none"
               /\ HasMetadata(Providers[j].instance)
               /\ HasHandle(Providers[j].instance)}
  IN IF js = {} THEN 0 ELSE CHOOSE j \in js : \A k \in js : j <= k

\* The first provider from index `from` on that has an instance under a
\* @PubSubListener decorator, or 0.
NextDecorated(from) ==
  LET js == {j \in from..Len(Providers) :
               Providers[j].instance # "none" /\ HasMetadata(Providers[j].instance)}
  IN IF js = {} THEN 0 ELSE CHOOSE j \in js : \A k \in js : j <= k

\* The for loop of onModuleInit from provider `from` on, up to the first
\* await: setupHandler logs and getOrCreateTopic calls topic.exists().
ExplorerLoop(r, from) ==
  LET j == NextDecorated(from) IN
  IF j = 0
  THEN [r EXCEPT !.pc = "done", !.i = Len(Providers) + 1]
  ELSE LET meta == Metadata(Providers[j].instance)
           s == [r EXCEPT !.i = j, !.listener = Providers[j].instance,
                          !.topic = meta.topicName,
                          !.sub = meta.subscriptionName,
                          !.options = meta.subscriptionOptions]
       IN Await(Issue(Log(s, "log", "Setting up subscription for topic",
                          <<s.sub, s.topic>>, Undefined),
                      "topic.exists", EmptyRec),
                "awaitTopicExists")

\* A catch block that logs the failure and lets onModuleInit go on with the
\* next provider.
setupHandlerCatchAndGoOn(r, error) ==
  ExplorerLoop([Log(r, "error", "Fatal error during listener setup for topic",
                    <<r.topic>>, normalizeError(error).stack)
                EXCEPT !.err = error],
               r.i + 1)

\* The catch block of setupHandler: log and rethrow, which rejects
\* onModuleInit.
setupHandlerCatch(r, error) ==
  [Log(r, "error", "Fatal error during listener setup for topic",
       <<r.topic>>, normalizeError(error).stack)
   EXCEPT !.pc = "failed", !.err = error]

\* A getOrCreateSubscription that creates without asking exists() first.
ExplorerCheckSubscriptionAlwaysCreate(r) ==
  Await(Issue(r, "subscription.create", ExplorerMergedOptions(Metadata(r.listener))),
        "awaitSubCreate")

\* getOrCreateSubscription begins: subscription.exists().
ExplorerCheckSubscription(r) ==
  Await(Issue(r, "subscription.exists", EmptyRec), "awaitSubExists")

\* getOrCreateTopic without the autoCreateTopics test: always creates.
ExplorerTopicMissingAlwaysCreate(r) ==
  Await(Issue(r, "topic.create", EmptyRec), "awaitTopicCreate")

\* getOrCreateTopic found the topic missing.
ExplorerTopicMissing(r) ==
  IF autoCreateTopics
  THEN Await(Issue(Log(r, "warn", "Topic does not exist. Auto-creating...",
                       <<r.topic>>, Undefined),
                   "topic.create", EmptyRec),
             "awaitTopicCreate")
  ELSE setupHandlerCatch(r, MissingTopicErr("Topic does not exist and auto-creation is disabled. Cannot start listener.", r.topic))

\* getOrCreateSubscription found the subscription missing.
ExplorerSubscriptionMissing(r) ==
  Await(Issue(Log(r, "log", "Creating subscription with merged options...",
                  <<r.sub>>, Undefined),
              "subscription.create", ExplorerMergedOptions(Metadata(r.listener))),
        "awaitSubCreate")

ExplorerOnModuleInit ==
  /\ module.pc = "ready" /\ module.variant = "full"
  /\ proc["x"].pc = "idle"
  /\ proc' = [proc EXCEPT !["x"] = ExplorerLoop(@, 1)]
  /\ UNCHANGED <<appVars, msg, callbacks, autoCreateTopics, topics, subs, subscriptions>>

\* topic.exists() answers.
ExplorerOnTopicExists ==
  /\ proc["x"].pc = "awaitTopicExists"
  /\ \E outcome \in Outcomes :
       LET r == proc["x"] IN
       proc' = [proc EXCEPT !["x"] =
         IF outcome = "error" THEN setupHandlerCatch(Respond(r, "error"), BackendErr)
         ELSE IF r.topic \in topics THEN ExplorerCheckSubscription(Respond(r, "true"))
         ELSE ExplorerTopicMissing(Respond(r, "false"))]
  /\ UNCHANGED <<appVars, msg, callbacks, autoCreateTopics, topics, subs, subscriptions>>

\* topic.create() answers: the backend refuses a topic that exists.
ExplorerOnTopicCreated ==
  /\ proc["x"].pc = "awaitTopicCreate"
  /\ \E outcome \in Outcomes :
       LET r == proc["x"] IN
       IF outcome = "error" \/ r.topic \in topics
       THEN /\ proc' = [proc EXCEPT !["x"] =
                 setupHandlerCatch(Respond(r, "error"),
                                   IF outcome = "error" THEN BackendErr ELSE AlreadyExistsErr)]
            /\ UNCHANGED topics
       ELSE /\ topics' = topics \cup {r.topic}
            /\ proc' = [proc EXCEPT !["x"] =
                 ExplorerCheckSubscription(
                   Log(Respond(r, "ok"), "log", "Topic created.", <<r.topic>>, Undefined))]
  /\ UNCHANGED <<appVars, msg, callbacks, autoCreateTopics, subs, subscriptions>>

\* An attach step that also sends the declared options to the subscription.
ExplorerAttachReconfigured(r) ==
  /\ callbacks' = [callbacks EXCEPT ![r.listener] = @ \cup {"message"}]
  /\ subscriptions' = Append(subscriptions,
                             [subscription |-> r.sub, listener |-> r.listener])
  /\ proc' = [proc EXCEPT !["x"] =
       ExplorerLoop(
         Respond(Issue(Respond(Issue(r, "subscription.setMetadata",
                                     ExplorerMergedOptions(Metadata(r.listener))), "ok"),
                       "subscription.on:message", EmptyRec), "ok"),
         r.i + 1)]

\* A setupHandler that records the handle and attaches no callback to it.
ExplorerRecordOnly(r) ==
  /\ callbacks' = callbacks
  /\ subscriptions' = Append(subscriptions,
                             [subscription |-> r.sub, listener |-> r.listener])
  /\ proc' = [proc EXCEPT !["x"] =
       ExplorerLoop(Log(r, "log", "Mapped handler to subscription", <<r.sub>>, Undefined),
                    r.i + 1)]

\* setupHandler after getOrCreateSubscription returned: attach the message
\* callback, record the handle, and go on with the loop of onModuleInit.
ExplorerAttach(r) ==
  /\ callbacks' = [callbacks EXCEPT ![r.listener] = @ \cup {"message"}]
  /\ subscriptions' = Append(subscriptions,
                             [subscription |-> r.sub, listener |-> r.listener])
  /\ proc' = [proc EXCEPT !["x"] =
       ExplorerLoop(Log(Respond(Issue(r, "subscription.on:message", EmptyRec), "ok"),
                        "log", "Mapped handler to subscription", <<r.sub>>, Undefined),
                    r.i + 1)]

\* subscription.exists() answers.
ExplorerOnSubscriptionExists ==
  /\ proc["x"].pc = "awaitSubExists"
  /\ \E outcome \in Outcomes :
       LET r == proc["x"] IN
       IF outcome = "error"
       THEN /\ proc' = [proc EXCEPT !["x"] = setupHandlerCatch(Respond(r, "error"), BackendErr)]
            /\ UNCHANGED <<callbacks, subscriptions>>
       ELSE IF r.sub \in DOMAIN subs
       THEN ExplorerAttach(Respond(r, "true"))
       ELSE /\ proc' = [proc EXCEPT !["x"] = ExplorerSubscriptionMissing(Respond(r, "false"))]
            /\ UNCHANGED <<callbacks, subscriptions>>
  /\ UNCHANGED <<appVars, msg, autoCreateTopics, topics, subs>>

\* The backend's record of a subscription made by create(options).
NewSubscription(topic, options) == [topic |-> topic, options |-> options]

\* subscription.create(mergedOptions) answers: the backend refuses a
\* subscription that exists.
ExplorerOnSubscriptionCreated ==
  /\ proc["x"].pc = "awaitSubCreate"
  /\ \E outcome \in Outcomes :
       LET r == proc["x"] IN
       IF outcome = "error" \/ r.sub \in DOMAIN subs
       THEN /\ proc' = [proc EXCEPT !["x"] =
                 setupHandlerCatch(Respond(r, "error"),
                                   IF outcome = "error" THEN BackendErr ELSE AlreadyExistsErr)]
            /\ UNCHANGED <<subs, callbacks, subscriptions>>
       ELSE /\ subs' = [s \in DOMAIN subs \cup {r.sub} |->
                         IF s = r.sub
                         THEN NewSubscription(r.topic, r.calls[Len(r.calls)].arg)
                         ELSE subs[s]]
            /\ ExplorerAttach(Respond(r, "ok"))
  /\ UNCHANGED <<appVars, msg, autoCreateTopics, topics>>

(***************************************************************************)
(* PubsubBaseListener.onModuleInit and listenForMessages, cut at the       *)
(* awaits.                                                                 *)
(***************************************************************************)
\* The catch block of onModuleInit: log and rethrow.
BaseInitCatch(r, error) ==
  [Log(r, "error", "Fatal error during listener setup for topic",
       <<r.topic>>, normalizeError(error).stack)
   EXCEPT !.pc = "failed", !.err = error]

\* const subscription = topic.subscription(...); subscription.exists()
BaseCheckSubscription(r) ==
  Await(Issue(r, "subscription.exists", EmptyRec), "awaitSubExists")

\* onModuleInit found the topic missing.
BaseTopicMissing(r) ==
  IF autoCreateTopics
  THEN Await(Issue(Log(r, "warn", "Topic does not exist. Auto-creating...",
                       <<r.topic>>, Undefined),
                   "topic.create", EmptyRec),
             "awaitTopicCreate")
  ELSE BaseInitCatch(r, MissingTopicErr("Topic does not exist and auto-creation is disabled. Cannot start listener.", r.topic))

\* onModuleInit found the subscription missing.
BaseSubscriptionMissing(r) ==
  Await(Issue(r, "subscription.create",
              getMergedSubscriptionOptions(BaseListenerFields.subscriptionOptions)),
        "awaitSubCreate")

BaseOnModuleInit ==
  /\ module.pc = "ready"
  /\ proc["b"].pc = "idle"
  /\ LET s == [proc["b"] EXCEPT !.listener = "B",
                                !.topic = BaseListenerFields.topicName,
                                !.sub = BaseListenerFields.subscriptionName]
     IN proc' = [proc EXCEPT !["b"] =
          Await(Issue(Log(s, "log", "Setting up subscription for topic",
                          <<s.sub, s.topic>>, Undefined),
                      "topic.exists", EmptyRec),
                "awaitTopicExists")]
  /\ UNCHANGED <<appVars, msg, callbacks, autoCreateTopics, topics, subs, subscriptions>>

BaseOnTopicExists ==
  /\ proc["b"].pc = "awaitTopicExists"
  /\ \E outcome \in Outcomes :
       LET r == proc["b"] IN
       proc' = [proc EXCEPT !["b"] =
         IF outcome = "error" THEN BaseInitCatch(Respond(r, "error"), BackendErr)
         ELSE IF r.topic \in topics THEN BaseCheckSubscription(Respond(r, "true"))
         ELSE BaseTopicMissing(Respond(r, "false"))]
  /\ UNCHANGED <<appVars, msg, callbacks, autoCreateTopics, topics, subs, subscriptions>>

BaseOnTopicCreated ==
  /\ proc["b"].pc = "awaitTopicCreate"
  /\ \E outcome \in Outcomes :
       LET r == proc["b"] IN
       IF outcome = "error" \/ r.topic \in topics
       THEN /\ proc' = [proc EXCEPT !["b"] =
                 BaseInitCatch(Respond(r, "error"),
                               IF outcome = "error" THEN BackendErr ELSE AlreadyExistsErr)]
            /\ UNCHANGED topics
       ELSE /\ topics' = topics \cup {r.topic}
            /\ proc' = [proc EXCEPT !["b"] =
                 BaseCheckSubscription(
                   Log(Respond(r, "ok"), "log", "Topic created.", <<r.topic>>, Undefined))]
  /\ UNCHANGED <<appVars, msg, callbacks, autoCreateTopics, subs, subscriptions>>

\* listenForMessages: the message callback, the error callback, a log line.
listenForMessages(r) ==
  /\ callbacks' = [callbacks EXCEPT ![r.listener] = @ \cup {"message", "error"}]
  /\ proc' = [proc EXCEPT !["b"] =
       [Log(Respond(Issue(Respond(Issue(r, "subscription.on:message", EmptyRec), "ok"),
                          "subscription.on:error", EmptyRec), "ok"),
            "log", "Listener started for subscription", <<r.sub>>, Undefined)
        EXCEPT !.pc = "done"]]

BaseOnSubscriptionExists ==
  /\ proc["b"].pc = "awaitSubExists"
  /\ \E outcome \in Outcomes :
       LET r == proc["b"] IN
       IF outcome = "error"
       THEN /\ proc' = [proc EXCEPT !["b"] = BaseInitCatch(Respond(r, "error"), BackendErr)]
            /\ UNCHANGED callbacks
       ELSE IF r.sub \in DOMAIN subs
       THEN listenForMessages(Respond(r, "true"))
       ELSE /\ proc' = [proc EXCEPT !["b"] = BaseSubscriptionMissing(Respond(r, "false"))]
            /\ UNCHANGED callbacks
  /\ UNCHANGED <<appVars, msg, autoCreateTopics, topics, subs, subscriptions>>

BaseOnSubscriptionCreated ==
  /\ proc["b"].pc = "awaitSubCreate"
  /\ \E outcome \in Outcomes :
       LET r == proc["b"] IN
       IF outcome = "error" \/ r.sub \in DOMAIN subs
       THEN /\ proc' = [proc EXCEPT !["b"] =
                 BaseInitCatch(Respond(r, "error"),
                               IF outcome = "error" THEN BackendErr ELSE AlreadyExistsErr)]
            /\ UNCHANGED <<subs, callbacks>>
       ELSE /\ subs' = [s \in DOMAIN subs \cup {r.sub} |->
                         IF s = r.sub
                         THEN NewSubscription(r.topic, r.calls[Len(r.calls)].arg)
                         ELSE subs[s]]
            /\ listenForMessages(
                 Log(Respond(r, "ok"), "log", "Subscription created with options",
                     <<r.sub>>, Undefined))
  /\ UNCHANGED <<appVars, msg, autoCreateTopics, topics, subscriptions>>

(***************************************************************************)
(* PubsubModule: registration and the client.                              *)
(***************************************************************************)
ModuleRegister ==
  /\ module.pc = "unregistered"
  /\ module' = Registered(module, config)
  /\ UNCHANGED <<msg, callbacks, autoCreateTopics, topics, subs, proc,
                 subscriptions, config, declared, handle, naming>>

ModuleCreateClient ==
  /\ module.pc = "registered"
  /\ module' = ClientCreated(module)
  /\ UNCHANGED <<msg, callbacks, autoCreateTopics, topics, subs, proc,
                 subscriptions, config, declared, handle, naming>>

(***************************************************************************)
(* Shutdown, and errors the backend reports on an attached subscription.   *)
(***************************************************************************)
\* How many errors the backend reports on one subscription.
MaxErrors == 1

RECURSIVE CloseAll(_, _, _)
\* this.subscriptions.forEach(sub => sub.close()) from handle k on: close()
\* is called on every recorded handle; the promise it returns is dropped,
\* so whether it resolves (outs[k]) changes nothing for the next handle.
CloseAll(r, k, outs) ==
  IF k > Len(subscriptions) THEN r
  ELSE CloseAll(Respond(Issue([r EXCEPT !.listener = subscriptions[k].listener,
                                        !.sub = subscriptions[k].subscription],
                              "subscription.close", EmptyRec),
                        outs[k]),
                k + 1, outs)

\* PubSubExplorer.onModuleDestroy, called once startup is over.  A handle is
\* closed when its close() succeeds.
ExplorerOnModuleDestroy ==
  /\ proc["x"].pc = "done"
  /\ \E outs \in [1..Len(subscriptions) -> Outcomes] :
       /\ proc' = [proc EXCEPT !["x"] = [CloseAll(@, 1, outs) EXCEPT !.pc = "destroyed"]]
       /\ handle' = [l \in Listeners |->
            IF \E k \in 1..Len(subscriptions) : subscriptions[k].listener = l
            THEN [handle[l] EXCEPT
                    !.closeCalls = @ + Cardinality({k \in 1..Len(subscriptions) :
                                                      subscriptions[k].listener = l}),
                    !.closed = \E k \in 1..Len(subscriptions) :
                                  subscriptions[k].listener = l /\ outs[k] = "ok"]
            ELSE handle[l]]
  /\ UNCHANGED <<msg, callbacks, autoCreateTopics, topics, subs, subscriptions,
                 config, declared, module, naming>>

\* The backend reports an error on listener l's subscription (the handle
\* emits 'error').  With an error callback attached the error is logged; with
\* none, the emitter has nobody to hand it to and throws it.
SubscriptionError(l) ==
  /\ "message" \in callbacks[l]
  /\ ~handle[l].closed
  /\ handle[l].errorsLogged + handle[l].errorsUnhandled < MaxErrors
  /\ handle' = [handle EXCEPT ![l] =
       IF "error" \in callbacks[l]
       THEN [@ EXCEPT !.errorsLogged = @ + 1]
       ELSE [@ EXCEPT !.errorsUnhandled = @ + 1]]
  /\ UNCHANGED <<msg, callbacks, autoCreateTopics, topics, subs, proc,
                 subscriptions, config, declared, module, naming>>

(***************************************************************************)
(* PubsubPublisher.dispatchEvent and getTopic, cut at the awaits.          *)
(***************************************************************************)
\* options?.attributes || {}
AttributesOf(options) ==
  IF "attributes" \in DOMAIN options THEN options.attributes ELSE EmptyRec

\* A logObject that carries the payload whenever options.logPayload is
\* truthy, not only when it is true.
LogObjectTruthy(input) ==
  LET logMetadata == [topicName |-> input.topicName,
                      attributes |-> AttributesOf(input.options),
                      payloadSize |-> ByteLength(JsonStringify(input.payload))]
  IN IF "logPayload" \in DOMAIN input.options /\ Truthy(input.options.logPayload)
     THEN Spread(logMetadata, [payload |-> input.payload])
     ELSE logMetadata

\* logObject: logMetadata, with the payload when options.logPayload === true.
LogObject(input) ==
  LET logMetadata == [topicName |-> input.topicName,
                      attributes |-> AttributesOf(input.options),
                      payloadSize |-> ByteLength(JsonStringify(input.payload))]
  IN IF "logPayload" \in DOMAIN input.options /\ input.options.logPayload = "true"
     THEN Spread(logMetadata, [payload |-> input.payload])
     ELSE logMetadata

PubLog(r, level, text, names, stack, meta) ==
  [r EXCEPT !.log = Append(@, [level |-> level, text |-> text, names |-> names,
                               stack |-> stack, meta |-> meta])]

\* A catch block that rethrows without logging.
DispatchCatchSilent(r, error) == [r EXCEPT !.pc = "failed", !.err = error]

\* The catch block of dispatchEvent: log and rethrow.
DispatchCatch(r, error) ==
  [PubLog(r, "error", "Failed to dispatch event", <<>>,
          normalizeError(error).stack, LogObject(r.input))
   EXCEPT !.pc = "failed", !.err = error]

\* getTopic returned: topic.publishMessage({data, attributes}).
PublisherPublish(r) ==
  Await(Issue(r, "topic.publishMessage",
              [data |-> JsonStringify(r.input.payload),
               attributes |-> AttributesOf(r.input.options)]),
        "awaitPublish")

\* getTopic that uses a missing topic without creating it.
PublisherTopicMissingNoCreate(r) ==
  IF autoCreateTopics THEN PublisherPublish(r)
  ELSE DispatchCatch(r, MissingTopicErr("Topic does not exist and auto-creation is disabled.", r.topic))

\* getTopic found the topic missing.
PublisherTopicMissing(r) ==
  IF autoCreateTopics
  THEN Await(Issue(PubLog(r, "warn", "Topic does not exist. Auto-creating...",
                          <<r.topic>>, Undefined, EmptyRec),
                   "topic.create", EmptyRec),
             "awaitTopicCreate")
  ELSE DispatchCatch(r, MissingTopicErr("Topic does not exist and auto-creation is disabled.", r.topic))

\* dispatchEvent(topicName, data, options) up to its first await: encode the
\* payload (Buffer.from throws on what stringify gives for undefined, before
\* anything is logged), log, and call topic.exists() in getTopic.
dispatchEvent(c, input) ==
  /\ module.pc = "ready"
  /\ proc[c].pc = "idle"
  /\ LET s == [proc[c] EXCEPT !.listener = "publisher", !.input = input,
                                !.topic = input.topicName]
     IN proc' = [proc EXCEPT ![c] =
          IF BufferFromThrows(JsonStringify(input.payload))
          THEN [s EXCEPT !.pc = "failed", !.err = BufferTypeErr]
          ELSE Await(Issue(PubLog(s, "log", "Dispatching event...", <<>>,
                                  Undefined, LogObject(input)),
                           "topic.exists", EmptyRec),
                     "awaitTopicExists")]
  /\ UNCHANGED <<appVars, msg, callbacks, autoCreateTopics, topics, subs, subscriptions>>

PublisherOnTopicExists(c) ==
  /\ proc[c].pc = "awaitTopicExists"
  /\ \E outcome \in Outcomes :
       LET r == proc[c] IN
       proc' = [proc EXCEPT ![c] =
         IF outcome = "error" THEN DispatchCatch(Respond(r, "error"), BackendErr)
         ELSE IF r.topic \in topics THEN PublisherPublish(Respond(r, "true"))
         ELSE PublisherTopicMissing(Respond(r, "false"))]
  /\ UNCHANGED <<appVars, msg, callbacks, autoCreateTopics, topics, subs, subscriptions>>

PublisherOnTopicCreated(c) ==
  /\ proc[c].pc = "awaitTopicCreate"
  /\ \E outcome \in Outcomes :
       LET r == proc[c] IN
       IF outcome = "error" \/ r.topic \in topics
       THEN /\ proc' = [proc EXCEPT ![c] =
                 DispatchCatch(Respond(r, "error"),
                               IF outcome = "error" THEN BackendErr ELSE AlreadyExistsErr)]
            /\ UNCHANGED topics
       ELSE /\ topics' = topics \cup {r.topic}
            /\ proc' = [proc EXCEPT ![c] =
                 PublisherPublish(
                   PubLog(Respond(r, "ok"), "log", "Topic created successfully.",
                          <<r.topic>>, Undefined, EmptyRec))]
  /\ UNCHANGED <<appVars, msg, callbacks, autoCreateTopics, subs, subscriptions>>

\* A publisher that answers with an id of its own.
PublishSucceededOwnId(r, messageId) ==
  [PubLog(r, "log", "Event dispatched successfully", <<>>, Undefined,
          Spread(LogObject(r.input), [messageId |-> MessageId]))
   EXCEPT !.pc = "done", !.result = MessageId]

\* dispatchEvent after publishMessage resolved: the success line, and the
\* message id is returned.
PublishSucceeded(r, messageId) ==
  [PubLog(r, "log", "Event dispatched successfully", <<>>, Undefined,
          Spread(LogObject(r.input), [messageId |-> messageId]))
   EXCEPT !.pc = "done", !.result = messageId]

\* publishMessage answers with the message id, or fails.
PublisherOnPublished(c) ==
  /\ proc[c].pc = "awaitPublish"
  /\ \E outcome \in Outcomes, id \in MessageIds :
       LET r == proc[c] IN
       proc' = [proc EXCEPT ![c] =
         IF outcome = "error" THEN DispatchCatch(Respond(r, "error"), BackendErr)
         ELSE PublishSucceeded(Respond(r, id), id)]
  /\ UNCHANGED <<appVars, msg, callbacks, autoCreateTopics, topics, subs, subscriptions>>

(***************************************************************************)
(* Specifications.                                                         *)
(***************************************************************************)
\* Provisioning: startup of the Explorer and of the base listener, and a
\* dispatchEvent call, against a backend that holds any of the topics and
\* subscriptions.
InitProvision ==
  /\ msg = [m \in Msgs |-> IdleMsg]
  /\ callbacks = [l \in Listeners |-> {}]
  /\ config \in PlainConfigs
  /\ autoCreateTopics = AutoCreateOf(config)
  /\ declared = DeclaredOptions
  /\ handle = [l \in Listeners |-> IdleHandle]
  /\ module = ClientCreated(Registered(NewModule("full", "register"), config))
  /\ naming = DeclaredNames
  /\ topics \in SUBSET Topics
  /\ \E S \in SUBSET SubNames :
       subs = [s \in S |-> NewSubscription("orders", ExistingOptions)]
  /\ proc = [p \in Procs |-> IdleProc]
  /\ subscriptions = <<>>

\* The topics and subscriptions the finished calls have dealt with.
Dealt(ps) ==
  UNION {{proc[p].calls[k].target : k \in 1..Len(proc[p].calls)} :
           p \in {q \in ps : proc[q].pc = "done"}}

\* The application is stopped after a startup that succeeded and started
\* again, over the same descriptors and against the same backend: the
\* services are constructed anew, topics and subscriptions stay.
Restart ==
  /\ module.run < MaxRuns
  /\ proc["x"].pc = "done" /\ proc["b"].pc = "done"
  /\ proc["p"].pc \in {"idle", "done"}
  /\ module' = [module EXCEPT !.run = @ + 1, !.ensured = @ \cup Dealt(Procs)]
  /\ proc' = [p \in Procs |-> IdleProc]
  /\ callbacks' = [l \in Listeners |-> {}]
  /\ handle' = [l \in Listeners |-> IdleHandle]
  /\ subscriptions' = <<>>
  /\ UNCHANGED <<msg, autoCreateTopics, topics, subs, config, declared, naming>>

\* dispatchEvent has resolved; the publisher is free for the next call.
DispatchReturned ==
  /\ proc["p"].pc = "done"
  /\ module' = [module EXCEPT !.ensured = @ \cup Dealt({"p"})]
  /\ proc' = [proc EXCEPT !["p"] = IdleProc]
  /\ UNCHANGED <<msg, callbacks, autoCreateTopics, topics, subs, subscriptions,
                 config, declared, handle, naming>>

NextProvision ==
  \/ ExplorerOnModuleInit
  \/ ExplorerOnTopicExists
  \/ ExplorerOnTopicCreated
  \/ ExplorerOnSubscriptionExists
  \/ ExplorerOnSubscriptionCreated
  \/ BaseOnModuleInit
  \/ BaseOnTopicExists
  \/ BaseOnTopicCreated
  \/ BaseOnSubscriptionExists
  \/ BaseOnSubscriptionCreated
  \/ \E input \in PublishInputs : dispatchEvent("p", input)
  \/ PublisherOnTopicExists("p")
  \/ PublisherOnTopicCreated("p")
  \/ PublisherOnPublished("p")

SpecProvision == InitProvision /\ [][NextProvision]_vars

\* One dispatchEvent call, of any of the PublishCalls, against a backend
\* that holds any of the topics.
InitPublish ==
  /\ msg = [m \in Msgs |-> IdleMsg]
  /\ callbacks = [l \in Listeners |-> {}]
  /\ config \in PlainConfigs
  /\ autoCreateTopics = AutoCreateOf(config)
  /\ declared = DeclaredOptions
  /\ handle = [l \in Listeners |-> IdleHandle]
  /\ module = ClientCreated(Registered(NewModule("full", "register"), config))
  /\ naming = DeclaredNames
  /\ topics \in SUBSET Topics
  /\ subs = [s \in {} |-> NewSubscription("orders", ExistingOptions)]
  /\ proc = [p \in Procs |-> IdleProc]
  /\ subscriptions = <<>>

NextPublish ==
  \/ \E input \in PublishCalls : dispatchEvent("p", input)
  \/ PublisherOnTopicExists("p")
  \/ PublisherOnTopicCreated("p")
  \/ PublisherOnPublished("p")

SpecPublish == InitPublish /\ [][NextPublish]_vars

\* The life of the listeners: startup with topic creation enabled against
\* a backend that holds nothing yet, errors reported on the attached
\* subscriptions, and shutdown.
InitLifecycle ==
  /\ msg = [m \in Msgs |-> IdleMsg]
  /\ callbacks = [l \in Listeners |-> {}]
  /\ config = [projectId |-> "p1", autoCreateTopics |-> "true"]
  /\ autoCreateTopics = AutoCreateOf(config)
  /\ declared = DeclaredOptions
  /\ handle = [l \in Listeners |-> IdleHandle]
  /\ module = ClientCreated(Registered(NewModule("full", "register"), config))
  /\ naming = DeclaredNames
  /\ topics = {}
  /\ subs = [s \in {} |-> NewSubscription("orders", ExistingOptions)]
  /\ proc = [p \in Procs |-> IdleProc]
  /\ subscriptions = <<>>

NextLifecycle ==
  \/ ExplorerOnModuleInit
  \/ ExplorerOnTopicExists
  \/ ExplorerOnTopicCreated
  \/ ExplorerOnSubscriptionExists
  \/ ExplorerOnSubscriptionCreated
  \/ BaseOnModuleInit
  \/ BaseOnTopicExists
  \/ BaseOnTopicCreated
  \/ BaseOnSubscriptionExists
  \/ BaseOnSubscriptionCreated
  \/ ExplorerOnModuleDestroy
  \/ \E l \in Listeners : SubscriptionError(l)

SpecLifecycle == InitLifecycle /\ [][NextLifecycle]_vars

\* Startup and a dispatchEvent call under every configuration the
\* application may pass, against a backend that holds nothing.
InitConfig ==
  /\ msg = [m \in Msgs |-> IdleMsg]
  /\ callbacks = [l \in Listeners |-> {}]
  /\ config \in Configs
  /\ autoCreateTopics = AutoCreateOf(config)
  /\ declared = DeclaredOptions
  /\ handle = [l \in Listeners |-> IdleHandle]
  /\ module = ClientCreated(Registered(NewModule("full", "register"), config))
  /\ naming = DeclaredNames
  /\ topics = {}
  /\ subs = [s \in {} |-> NewSubscription("orders", ExistingOptions)]
  /\ proc = [p \in Procs |-> IdleProc]
  /\ subscriptions = <<>>

SpecConfig == InitConfig /\ [][NextProvision]_vars

\* Startup of listeners that declare any of the Overrides, with topic
\* creation enabled, against a backend that holds nothing yet: every
\* subscription is created with merged options.
InitMerge ==
  /\ msg = [m \in Msgs |-> IdleMsg]
  /\ callbacks = [l \in Listeners |-> {}]
  /\ config = [projectId |-> "p1", autoCreateTopics |-> "true"]
  /\ autoCreateTopics = AutoCreateOf(config)
  /\ \E o \in Overrides : declared = [l \in Listeners |-> o]
  /\ handle = [l \in Listeners |-> IdleHandle]
  /\ module = ClientCreated(Registered(NewModule("full", "register"), config))
  /\ naming = DeclaredNames
  /\ topics = {}
  /\ subs = [s \in {} |-> NewSubscription("orders", ExistingOptions)]
  /\ proc = [p \in Procs |-> IdleProc]
  /\ subscriptions = <<>>

NextMerge ==
  \/ ExplorerOnModuleInit
  \/ ExplorerOnTopicExists
  \/ ExplorerOnTopicCreated
  \/ ExplorerOnSubscriptionExists
  \/ ExplorerOnSubscriptionCreated
  \/ BaseOnModuleInit
  \/ BaseOnTopicExists
  \/ BaseOnTopicCreated
  \/ BaseOnSubscriptionExists
  \/ BaseOnSubscriptionCreated

SpecMerge == InitMerge /\ [][NextMerge]_vars

\* Message delivery on subscriptions whose callbacks are attached.
InitDispatch ==
  /\ msg = [m \in Msgs |-> IdleMsg]
  /\ callbacks = [l \in Listeners |->
                    IF ListenerKind(l) = "base" THEN {"message", "error"}
                    ELSE {"message"}]
  /\ config = [projectId |-> "p1"]
  /\ autoCreateTopics = AutoCreateOf(config)
  /\ declared = DeclaredOptions
  /\ handle = [l \in Listeners |-> IdleHandle]
  /\ module = ClientCreated(Registered(NewModule("full", "register"), config))
  /\ naming = DeclaredNames
  /\ topics = Topics
  /\ subs = [s \in SubNames |-> NewSubscription("orders", ExistingOptions)]
  /\ proc = [p \in Procs |-> IdleProc]
  /\ subscriptions = <<[subscription |-> "orders-sub", listener |-> "A"],
                       [subscription |-> "users-sub", listener |-> "N"]>>

NextDispatch ==
  \E m \in Msgs :
    \/ \E l \in Listeners, b \in Bodies(m) : ExplorerOnMessage(m, l, b)
    \/ \E l \in Listeners, b \in Bodies(m) : BaseOnMessage(m, l, b)
    \/ ExplorerOnHandlerRejected(m)
    \/ BaseOnHandlerRejected(m)
    \/ HandlerAck(m)
    \/ HandlerNack(m)
    \/ HandlerReturn(m)
    \/ \E e \in HandlerErrors : HandlerThrow(m, e)

SpecDispatch == InitDispatch /\ [][NextDispatch]_vars

(***************************************************************************)
(* Properties of the message callbacks.                                    *)
(***************************************************************************)
Acks(m) == msg[m].coreAck + msg[m].hAck
Nacks(m) == msg[m].coreNack + msg[m].hNack
Finished(m) == msg[m].pc = "done"

\* C1: a message whose body is not valid JSON never reaches the handler, is
\* nacked exactly once and is never acked.
C1_MalformedNackedOnce ==
  \A m \in Msgs :
    (msg[m].pc # "idle" /\ msg[m].payload = NoPayload) =>
      /\ Finished(m)
      /\ msg[m].handlerCalls = 0
      /\ Nacks(m) = 1
      /\ Acks(m) = 0

C1_Witness ==
  /\ msg["m1"].path = "parseFailed" /\ msg["m2"].path = "parseFailed"
  /\ ListenerKind(msg["m1"].listener) = "explorer"
  /\ ListenerKind(msg["m2"].listener) = "base"
  /\ msg["m1"].data = <<LBrace, Tok("str", "this is not valid json"), RBrace>>

\* C2 as claimed: when the handler of a parsed message throws or rejects,
\* nack() has been called exactly once in total and ack() never, whatever
\* the handler did with the raw message before failing.
C2_NackOnceInTotal ==
  \A m \in Msgs :
    (Finished(m) /\ msg[m].path = "handlerFailed") =>
      (Nacks(m) = 1 /\ Acks(m) = 0)

\* C2 amended: when the handler of a parsed message throws or rejects, the
\* core calls nack() exactly once and never ack(); nack() has been called
\* once in total and ack() never when the handler did not itself ack or
\* nack the raw message before failing.
C2_CoreNacksOnceOnFailure ==
  \A m \in Msgs :
    (Finished(m) /\ msg[m].path = "handlerFailed") =>
      /\ msg[m].coreNack = 1
      /\ msg[m].coreAck = 0
      /\ (msg[m].hAck = 0 /\ msg[m].hNack = 0) => (Nacks(m) = 1 /\ Acks(m) = 0)

C2_Witness ==
  /\ Finished("m1") /\ msg["m1"].path = "handlerFailed"
  /\ msg["m1"].listener = "B" /\ msg["m1"].hAck = 1 /\ msg["m1"].err = ErrFail
  /\ Finished("m2") /\ msg["m2"].path = "handlerFailed"
  /\ msg["m2"].listener = "A" /\ msg["m2"].hAck = 0 /\ msg["m2"].hNack = 0

\* C3 as claimed: when the handler itself calls ack(), the core calls
\* neither ack() nor nack() on that message.
C3_HandlerAckedCoreSilent ==
  \A m \in Msgs :
    msg[m].hAck > 0 => (msg[m].coreAck = 0 /\ msg[m].coreNack = 0)

\* C3 amended: when the handler itself calls ack() and returns without
\* raising (or has not returned yet), the core calls neither ack() nor
\* nack() on that message.
C3_HandlerAckedAndReturned ==
  \A m \in Msgs :
    (msg[m].hAck > 0 /\ (msg[m].pc = "handling" \/ msg[m].path = "handlerOk")) =>
      (msg[m].coreAck = 0 /\ msg[m].coreNack = 0)

C3_Witness ==
  /\ Finished("m1") /\ msg["m1"].path = "handlerOk" /\ msg["m1"].hAck = 1
  /\ msg["m1"].listener = "B"
  /\ Finished("m2") /\ msg["m2"].path = "handlerOk" /\ msg["m2"].hAck = 1
  /\ msg["m2"].listener = "A"

\* C4 as claimed: once the callback has finished, ack() and nack() together
\* have been called exactly once on the message, on every path.
C4_ExactlyOneDecision ==
  \A m \in Msgs : Finished(m) => Acks(m) + Nacks(m) = 1

\* C4 amended: once the callback has finished, the core has called nack()
\* exactly once when the parse or the handler failed and has called nothing
\* when the handler returned, so that every other call is the handler's own:
\* exactly one decision when the handler left the message alone on a failure
\* path, or made exactly one call and returned.
C4_OneCoreDecisionPerPath ==
  \A m \in Msgs :
    Finished(m) =>
      /\ msg[m].path \in {"parseFailed", "handlerFailed", "handlerOk"}
      /\ msg[m].coreAck = 0
      /\ msg[m].path \in {"parseFailed", "handlerFailed"} => msg[m].coreNack = 1
      /\ msg[m].path = "handlerOk" => msg[m].coreNack = 0
      /\ (msg[m].path # "handlerOk" /\ msg[m].hAck + msg[m].hNack = 0) =>
           Acks(m) + Nacks(m) = 1
      /\ (msg[m].path = "handlerOk" /\ msg[m].hAck + msg[m].hNack = 1) =>
           Acks(m) + Nacks(m) = 1

C4_Witness ==
  /\ Finished("m1") /\ msg["m1"].path = "handlerOk"
  /\ msg["m1"].hAck = 0 /\ msg["m1"].hNack = 0
  /\ Finished("m2") /\ msg["m2"].path = "handlerFailed" /\ msg["m2"].hNack = 1

\* C5: a message whose body is the JSON encoding of a JSON payload P, as
\* dispatchEvent publishes it, reaches the handler exactly once with a value
\* deep-equal to P and with the raw message itself.
C5_PayloadRoundTrip ==
  \A m \in Msgs :
    (msg[m].pc # "idle" /\ msg[m].payload # NoPayload /\ IsJson(msg[m].payload)
       /\ HasHandle(msg[m].listener)) =>
      /\ msg[m].handlerCalls = 1
      /\ DeepEqual(msg[m].arg, msg[m].payload)
      /\ msg[m].argMsg = m

C5_Witness ==
  /\ msg["m1"].pc = "handling" /\ msg["m1"].listener = "A"
  /\ msg["m1"].payload = VObj(<<"a">>, <<VArr(<<VNum("1"), VStr("a")>>)>>)
  /\ msg["m1"].arg = msg["m1"].payload
  /\ msg["m2"].pc = "handling" /\ msg["m2"].listener = "B"

\* C6: the core never calls ack(); it calls nack() only after a parse
\* failure or after the handler raised, and does nothing to the message
\* while the handler runs or after it returned.
C6_NoImplicitAck ==
  \A m \in Msgs :
    /\ msg[m].coreAck = 0
    /\ msg[m].coreNack > 0 =>
         (Finished(m) /\ msg[m].path \in {"parseFailed", "handlerFailed"})
    /\ msg[m].pc \in {"handling", "rejected"} => msg[m].coreNack = 0
    /\ msg[m].path = "handlerOk" => msg[m].coreNack = 0

C6_Witness ==
  /\ msg["m1"].pc = "handling" /\ msg["m1"].hAck = 0 /\ msg["m1"].hNack = 0
  /\ Finished("m2") /\ msg["m2"].path = "handlerOk"
  /\ msg["m2"].hAck = 0 /\ msg["m2"].hNack = 0

(***************************************************************************)
(* Properties of provisioning.                                             *)
(***************************************************************************)
\* The calls made for the same listener setup, or the same dispatchEvent.
SameSetup(c, d) == c.tag = d.tag
\* A call that uses the topic: publishMessage in dispatchEvent, the
\* subscription existence check in listener setup.
UsesTopic(c) == c.op \in {"topic.publishMessage", "subscription.exists"}
CreatesOf(cs, c) ==
  {j \in 1..Len(cs) : cs[j].op = "topic.create" /\ SameSetup(cs[j], c)}

\* C7: a topic found absent with autoCreateTopics on is created by exactly
\* one topic.create() call, made before the topic is used, and once it is
\* created the operation goes on as for a topic that existed; for a topic
\* found present, create() is not called.
C7_TopicCreatedOnceBeforeUse ==
  \A p \in Procs :
    LET cs == proc[p].calls IN
    \A k \in 1..Len(cs) :
      /\ (cs[k].op = "topic.exists" /\ cs[k].res = "false" /\ autoCreateTopics) =>
           /\ k + 1 <= Len(cs)
           /\ cs[k + 1].op = "topic.create"
           /\ cs[k + 1].target = cs[k].target
           /\ CreatesOf(cs, cs[k]) = {k + 1}
           /\ cs[k + 1].res = "ok" =>
                (cs[k].target \in topics /\ k + 2 <= Len(cs) /\ UsesTopic(cs[k + 2]))
           /\ cs[k + 1].res # "ok" =>
                \A j \in 1..Len(cs) : SameSetup(cs[j], cs[k]) => ~UsesTopic(cs[j])
      /\ (cs[k].op = "topic.exists" /\ cs[k].res = "true") =>
           /\ CreatesOf(cs, cs[k]) = {}
           /\ k + 1 <= Len(cs) /\ UsesTopic(cs[k + 1])
      /\ UsesTopic(cs[k]) =>
           /\ k > 1
           /\ SameSetup(cs[k - 1], cs[k])
           /\ \/ cs[k - 1].op = "topic.exists" /\ cs[k - 1].res = "true"
              \/ cs[k - 1].op = "topic.create" /\ cs[k - 1].res = "ok"

C7_Witness ==
  /\ autoCreateTopics
  /\ proc["p"].pc = "done" /\ proc["p"].result = MessageId
  /\ Len(proc["p"].calls) = 3 /\ proc["p"].calls[2].op = "topic.create"
  /\ proc["p"].calls[2].target = "users"
  /\ proc["x"].pc = "awaitTopicExists" /\ proc["x"].listener = "N"
  /\ proc["x"].calls[2].op = "topic.create" /\ "message" \in callbacks["A"]

\* C8: a topic found absent with autoCreateTopics off makes the operation
\* fail with an error naming the topic; create() is not called and nothing
\* further is done: no publishMessage, no subscription check or creation, no
\* callback attached.
C8_MissingTopicFailsFast ==
  \A p \in Procs :
    LET cs == proc[p].calls IN
    \A k \in 1..Len(cs) :
      (cs[k].op = "topic.exists" /\ cs[k].res = "false" /\ ~autoCreateTopics) =>
        /\ k = Len(cs)
        /\ CreatesOf(cs, cs[k]) = {}
        /\ proc[p].pc = "failed"
        /\ proc[p].err.type = "Error"
        /\ proc[p].err.names = <<cs[k].target>>
        /\ proc[p].result = Undefined
        /\ cs[k].target \notin topics
        /\ cs[k].tag \in Listeners =>
             /\ callbacks[cs[k].tag] = {}
             /\ \A i \in 1..Len(subscriptions) : subscriptions[i].listener # cs[k].tag

C8_Witness ==
  /\ ~autoCreateTopics
  /\ proc["p"].pc = "failed" /\ proc["p"].err.names = <<"users">>
  /\ proc["x"].pc = "failed" /\ proc["x"].listener = "N"
  /\ proc["x"].err.names = <<"users">> /\ "message" \in callbacks["A"]
  /\ proc["b"].pc = "done"

\* C9: when the subscription already exists, listener setup calls neither
\* create nor anything else that configures it, whatever subscriptionOptions
\* the listener declares: it attaches its callbacks to the handle of that
\* subscription, and a subscription that exists keeps its settings.
C9_SubscriptionFound ==
  \A p \in Procs :
    LET cs == proc[p].calls IN
    \A k \in 1..Len(cs) :
      (cs[k].op = "subscription.exists" /\ cs[k].res = "true") =>
        /\ k + 1 <= Len(cs)
        /\ "message" \in callbacks[cs[k].tag]
        /\ \A j \in 1..Len(cs) :
             (SameSetup(cs[j], cs[k]) /\ j > k) =>
               /\ cs[j].op \in {"subscription.on:message", "subscription.on:error"}
               /\ cs[j].target = cs[k].target
        /\ \A j \in 1..Len(cs) :
             SameSetup(cs[j], cs[k]) => cs[j].op # "subscription.create"

C9_SettingsKept ==
  \A s \in DOMAIN subs : s \in DOMAIN subs' /\ subs'[s] = subs[s]

C9_ExistingSubscriptionUntouched ==
  []C9_SubscriptionFound /\ [][C9_SettingsKept]_vars

C9_Witness ==
  /\ "message" \in callbacks["A"]
  /\ Len(proc["x"].calls) >= 3
  /\ proc["x"].calls[2].op = "subscription.exists"
  /\ proc["x"].calls[2].res = "true"
  /\ proc["x"].calls[3].op = "subscription.on:message"
  /\ proc["x"].calls[3].target = "orders-sub"
  /\ Metadata("A").subscriptionOptions.ackDeadlineSeconds = 300
  /\ subs["orders-sub"].options.ackDeadlineSeconds = 30
  /\ proc["b"].pc = "done" /\ Len(proc["b"].calls) = 4

\* C10 as claimed: a subscription found absent with autoCreateTopics off
\* makes listener setup fail without creating it; subscription.create() is
\* called only when auto-creation is on.
C10_SubscriptionNeedsAutoCreate ==
  \A p \in Procs :
    LET cs == proc[p].calls IN
    \A k \in 1..Len(cs) :
      /\ (cs[k].op = "subscription.exists" /\ cs[k].res = "false"
            /\ ~autoCreateTopics) =>
           (k = Len(cs) /\ proc[p].pc = "failed")
      /\ cs[k].op = "subscription.create" => autoCreateTopics
(***************************************************************************)
(* Properties of the merged subscription options.                          *)
(***************************************************************************)
SubscriptionCreates ==
  {c \in UNION {{proc[p].calls[k] : k \in 1..Len(proc[p].calls)} : p \in {"x", "b"}} :
     c.op = "subscription.create"}
BackoffBounds == {"minimumBackoff", "maximumBackoff"}

\* C11: the options passed to subscription.create() obey the merge law.  With
\* nothing declared they are the defaults (ack deadline 60 s, backoff 10 s
\* and 600 s, retention 604800 s); each backoff bound is the declared one if
\* the listener declares it and the default one otherwise; every other
\* top-level field is the declared one if the listener declares it and the
\* default one otherwise, and no other field appears.
C11_MergeLaw ==
  \A c \in SubscriptionCreates :
    LET o == declared[c.tag]
        m == c.arg
    IN /\ o = EmptyRec =>
            m = [ackDeadlineSeconds |-> 60,
                 retryPolicy |-> [minimumBackoff |-> [seconds |-> 10],
                                  maximumBackoff |-> [seconds |-> 600]],
                 messageRetentionDuration |-> [seconds |-> 604800]]
       /\ DOMAIN m = DOMAIN o \cup {"ackDeadlineSeconds", "retryPolicy",
                                     "messageRetentionDuration"}
       /\ DOMAIN m.retryPolicy = BackoffBounds
       /\ \A b \in BackoffBounds :
            m.retryPolicy[b] =
              IF "retryPolicy" \in DOMAIN o /\ b \in DOMAIN o.retryPolicy
              THEN o.retryPolicy[b]
              ELSE defaultSubscriptionOptions.retryPolicy[b]
       /\ \A k \in DOMAIN m \ {"retryPolicy"} :
            m[k] = IF k \in DOMAIN o THEN o[k] ELSE defaultSubscriptionOptions[k]
       /\ c.res = "ok" => subs[c.target].options = m

\* The base listener, declaring only a maximum backoff of 100 s, has created
\* its subscription with the minimum backoff left at 10 s; the Explorer has
\* created one too.
C11_Witness ==
  /\ declared["B"] = [retryPolicy |-> [maximumBackoff |-> [seconds |-> 100]]]
  /\ "audit-sub" \in DOMAIN subs
  /\ subs["audit-sub"].options.retryPolicy.minimumBackoff.seconds = 10
  /\ subs["audit-sub"].options.retryPolicy.maximumBackoff.seconds = 100
  /\ "orders-sub" \in DOMAIN subs
  /\ \E c \in SubscriptionCreates : c.tag = "B" /\ c.res = "ok"
(***************************************************************************)
(* Properties of dispatchEvent.                                            *)
(***************************************************************************)
Publishes(r) == {k \in 1..Len(r.calls) : r.calls[k].op = "topic.publishMessage"}
LinesWith(r, text) == {k \in 1..Len(r.log) : r.log[k].text = text}
TopicPreExisted(r) == Len(r.calls) >= 1 /\ r.calls[1].res = "true"

\* C12: for a topic that exists, dispatchEvent(topicName, payload, options)
\* calls publishMessage exactly once, on the topic of that name, with
\* data = JSON.stringify(payload) and attributes = options.attributes (the
\* empty map when none are given), and returns exactly the message id the
\* backend answered.
C12_PublishesOnceAndReturnsId ==
  LET r == proc["p"] IN
  /\ Cardinality(Publishes(r)) <= 1
  /\ TopicPreExisted(r) =>
       /\ Publishes(r) = {2} /\ Len(r.calls) = 2
       /\ r.calls[2].target = r.input.topicName
       /\ r.calls[2].arg.data = JsonStringify(r.input.payload)
       /\ r.calls[2].arg.attributes =
            (IF "attributes" \in DOMAIN r.input.options
             THEN r.input.options.attributes ELSE EmptyRec)
       /\ r.calls[2].res \in MessageIds => r.pc = "done"
       /\ r.pc = "done" => r.calls[2].res \in MessageIds /\ r.result = r.calls[2].res

\* dispatchEvent with attributes returned the second of the backend's ids
\* for a topic that was there.
C12_Witness ==
  LET r == proc["p"] IN
  /\ r.pc = "done" /\ TopicPreExisted(r)
  /\ r.result = "message-456"
  /\ r.calls[2].arg.attributes = [traceId |-> "123"]
  /\ r.calls[2].arg.data = JsonStringify(VObj(<<"key">>, <<VStr("other")>>))

\* C13: when publishMessage fails, dispatchEvent logs 'Failed to dispatch
\* event' once with the normalized stack of the error, raises that same
\* error, has called publishMessage once only, and logs no success line.
C13_PublishFailureLoggedAndRaised ==
  LET r == proc["p"] IN
  (Publishes(r) # {} /\ r.calls[Len(r.calls)].res = "error") =>
    /\ r.pc = "failed" /\ r.err = BackendErr /\ r.result = Undefined
    /\ LinesWith(r, "Failed to dispatch event") = {Len(r.log)}
    /\ r.log[Len(r.log)].level = "error"
    /\ r.log[Len(r.log)].stack = "Error: 14 UNAVAILABLE at callback"
    /\ Cardinality(Publishes(r)) = 1
    /\ LinesWith(r, "Event dispatched successfully") = {}

\* publishMessage failed on a topic the call had created itself.
C13_Witness ==
  LET r == proc["p"] IN
  /\ r.pc = "failed" /\ Len(r.calls) = 3
  /\ r.calls[2].op = "topic.create" /\ r.calls[2].res = "ok"
  /\ r.calls[3].op = "topic.publishMessage" /\ r.calls[3].res = "error"
  /\ Len(r.log) = 4

\* C14: every dispatchEvent call logs the pre-publish line before any backend
\* call and then exactly one terminal line before it completes: the success
\* line with the message id when it returns, an error line with the
\* normalized stack when it raises, whatever made it fail (serialization,
\* topic check, topic creation, publish).
C14_LoggingProtocol ==
  LET r == proc["p"]
      terminal == LinesWith(r, "Event dispatched successfully")
                  \cup LinesWith(r, "Failed to dispatch event")
  IN r.pc # "idle" =>
       /\ LinesWith(r, "Dispatching event...") = {1}
       /\ r.pc \notin {"done", "failed"} => terminal = {}
       /\ r.pc \in {"done", "failed"} => terminal = {Len(r.log)}
       /\ r.pc = "done" =>
            /\ r.log[Len(r.log)].text = "Event dispatched successfully"
            /\ r.log[Len(r.log)].meta.messageId = r.result
       /\ r.pc = "failed" =>
            /\ r.log[Len(r.log)].text = "Failed to dispatch event"
            /\ r.log[Len(r.log)].stack = normalizeError(r.err).stack

\* C15: the payload is in the log entries of a dispatchEvent call exactly
\* when options.logPayload is true; otherwise the entries are those of any
\* call that differs only in the content of a payload of equal encoded size.
ExactlyTrue(options) == "logPayload" \in DOMAIN options /\ options.logPayload = "true"
SameButPayload(i, j) ==
  /\ i.topicName = j.topicName /\ i.options = j.options
  /\ ~BufferFromThrows(JsonStringify(j.payload))
  /\ ByteLength(JsonStringify(i.payload)) = ByteLength(JsonStringify(j.payload))
\* The entry the same step of the call writes when the input is j.
EntryFor(e, j) ==
  IF e.text \in {"Dispatching event...", "Failed to dispatch event"}
  THEN [e EXCEPT !.meta = LogObject(j)]
  ELSE IF e.text = "Event dispatched successfully"
  THEN [e EXCEPT !.meta = Spread(LogObject(j), [messageId |-> e.meta.messageId])]
  ELSE e
C15_PayloadLoggedOnlyOnRequest ==
  LET r == proc["p"] IN
  \A k \in 1..Len(r.log) :
    LET e == r.log[k] IN
    /\ e.text \in {"Dispatching event...", "Failed to dispatch event",
                    "Event dispatched successfully"} =>
         /\ "payload" \in DOMAIN e.meta <=> ExactlyTrue(r.input.options)
         /\ "payload" \in DOMAIN e.meta => e.meta.payload = r.input.payload
    /\ "payload" \notin DOMAIN e.meta =>
         DOMAIN e.meta \subseteq {"topicName", "attributes", "payloadSize", "messageId"}
    /\ ~ExactlyTrue(r.input.options) =>
         \A j \in PublishCalls : SameButPayload(r.input, j) => e = EntryFor(e, j)

\* A call with logPayload 'yes' has failed at publishing: its three lines
\* carry no payload, and a call of equal size with another payload exists.
C15_Witness ==
  LET r == proc["p"] IN
  /\ r.pc = "failed" /\ Publishes(r) # {}
  /\ r.input.options = [attributes |-> [traceId |-> "123"], logPayload |-> "yes"]
  /\ r.input.payload = VObj(<<"key">>, <<VStr("value")>>)
  /\ r.log[1].meta.payloadSize = 15
  /\ \E j \in PublishCalls : SameButPayload(r.input, j) /\ j.payload # r.input.payload
(***************************************************************************)
(* Properties of startup and shutdown.                                     *)
(***************************************************************************)
\* The place of a listener's provider in the registry (0: not in it).
ProviderIndex(l) ==
  IF \E j \in 1..Len(Providers) : Providers[j].instance = l
  THEN CHOOSE j \in 1..Len(Providers) : Providers[j].instance = l
  ELSE 0
Recorded == {subscriptions[k].listener : k \in 1..Len(subscriptions)}
Touched(l) ==
  \/ \E k \in 1..Len(proc["x"].calls) : proc["x"].calls[k].tag = l
  \/ callbacks[l] # {}
  \/ l \in Recorded

C16_InOrderAndAborted ==
  LET r == proc["x"] IN
  /\ \A k \in 1..Len(r.calls), n \in 1..Len(r.calls) :
       k <= n => ProviderIndex(r.calls[k].tag) <= ProviderIndex(r.calls[n].tag)
  /\ \A k \in 1..Len(subscriptions), n \in 1..Len(subscriptions) :
       k < n => ProviderIndex(subscriptions[k].listener)
                  < ProviderIndex(subscriptions[n].listener)
  /\ \A l \in {"A", "N"} :
       (r.pc \notin {"idle", "done"} /\ ProviderIndex(l) > r.i) => ~Touched(l)
  /\ \A k \in 1..Len(r.calls) :
       r.calls[k].res = "error" => k = Len(r.calls) /\ r.pc = "failed"
  /\ \A k \in 1..Len(r.log) :
       r.log[k].level = "error" => k = Len(r.log) /\ r.pc = "failed"
  /\ r.pc = "failed" =>
       /\ r.log[Len(r.log)] =
            [level |-> "error", text |-> "Fatal error during listener setup for topic",
             names |-> <<Metadata(r.listener).topicName>>,
             stack |-> normalizeError(r.err).stack]
       /\ r.err # NoError
       /\ r.calls[Len(r.calls)].res = "error" => r.err \in {BackendErr, AlreadyExistsErr}
       /\ r.calls[Len(r.calls)].res = "false" =>
            r.err = MissingTopicErr("Topic does not exist and auto-creation is disabled. Cannot start listener.",
                                    Metadata(r.listener).topicName)
       /\ ProviderIndex(r.listener) = r.i
       /\ callbacks[r.listener] = {} /\ r.listener \notin Recorded
C16_FailureIsFinal ==
  proc["x"].pc = "failed" =>
    /\ proc'["x"] = proc["x"]
    /\ \A l \in {"A", "N"} : callbacks'[l] = callbacks[l]
    /\ subscriptions' = subscriptions

\* C16: PubSubExplorer.onModuleInit is fail-fast.  Descriptors are set up one
\* after another in registry order; when provisioning or attach fails for
\* one, the failure is logged, onModuleInit raises that same error, and no
\* descriptor after it is ever provisioned, attached or recorded.
C16_FailFast == []C16_InOrderAndAborted /\ [][C16_FailureIsFinal]_vars

\* Setup of A, the first descriptor, failed at creating its subscription; N,
\* which comes after it, was not touched.
C16_Witness ==
  LET r == proc["x"] IN
  /\ r.pc = "failed" /\ r.listener = "A" /\ r.i = 1
  /\ Len(r.calls) = 3 /\ r.calls[3].op = "subscription.create"
  /\ r.calls[3].res = "error"
  /\ ~Touched("N") /\ subscriptions = <<>>
  /\ proc["b"].pc = "done"
Attached(l) == "message" \in callbacks[l]

\* C17: on shutdown every subscription the library attached a callback to is
\* closed.  onModuleDestroy calls close() on each recorded handle, also when
\* close() of another handle fails, and does not fail itself; no attached
\* subscription, of the Explorer or of a PubsubBaseListener, is left without
\* its close() after shutdown.
C17_AllClosedOnShutdown ==
  proc["x"].pc = "destroyed" =>
    /\ \A l \in Recorded : handle[l].closeCalls = 1
    /\ proc["x"].err = NoError
    /\ \A l \in Listeners : Attached(l) => handle[l].closeCalls >= 1

\* C18: every subscription the library attaches gets a message callback and
\* an error callback; an error the backend reports on it is logged, and it
\* neither ends the subscription nor keeps later messages from the handler.
C18_ErrorCallbackEverywhere ==
  \A l \in Listeners :
    /\ Attached(l) => "error" \in callbacks[l]
    /\ handle[l].errorsUnhandled = 0
    /\ (handle[l].errorsLogged > 0 /\ proc["x"].pc # "destroyed") =>
         Attached(l) /\ ~handle[l].closed
(***************************************************************************)
(* Failures stay with their message.                                       *)
(***************************************************************************)
FailedLocally(m) == Finished(m) /\ msg[m].path \in {"parseFailed", "handlerFailed"}

\* C19: a parse failure or a handler failure is local to its message.  The
\* message callback never throws and its promise never rejects, and after
\* such a failure the subscription still has its callback and takes the
\* next message.
C19_FailuresAreLocal ==
  \A m \in Msgs :
    /\ msg[m].pc # "crashed"
    /\ msg[m].pc \in {"idle", "handling", "rejected", "done"}
    /\ FailedLocally(m) =>
         LET l == msg[m].listener IN
         /\ Attached(l) /\ ~handle[l].closed
         /\ \A n \in Msgs :
              msg[n].pc = "idle" =>
                ENABLED (\E b \in Bodies(n) :
                           ExplorerOnMessage(n, l, b) \/ BaseOnMessage(n, l, b))

\* On the base listener message m1 failed in its handler and was nacked, and
\* message m2 has been handled to the end.
C19_Witness ==
  /\ FailedLocally("m1") /\ msg["m1"].path = "handlerFailed"
  /\ msg["m1"].listener = "B" /\ msg["m1"].coreNack = 1
  /\ Finished("m2") /\ msg["m2"].path = "handlerOk" /\ msg["m2"].listener = "B"

(***************************************************************************)
(* Properties of the configuration.                                        *)
(***************************************************************************)
TopicCreates ==
  {c \in UNION {{proc[p].calls[k] : k \in 1..Len(proc[p].calls)} : p \in Procs} :
     c.op = "topic.create"}

RegisterConfigs ==
  {Spread(Spread(p, e), a) :
     p \in {EmptyRec, [projectId |-> "p1"]},
     e \in {EmptyRec, [emulatorMode |-> "true", port |-> "8085"], [emulatorMode |-> "true"]},
     a \in {EmptyRec, [autoCreateTopics |-> "true"]}}

InitRegister ==
  /\ msg = [m \in Msgs |-> IdleMsg]
  /\ callbacks = [l \in Listeners |-> {}]
  /\ config \in RegisterConfigs
  /\ autoCreateTopics = AutoCreateOf(config)
  /\ declared = DeclaredOptions
  /\ handle = [l \in Listeners |-> IdleHandle]
  /\ module \in {NewModule("full", "register"), NewModule("full", "registerAsync"),
                 NewModule("inline", "register")}
  /\ naming = DeclaredNames
  /\ topics = {}
  /\ subs = [s \in {} |-> NewSubscription("orders", ExistingOptions)]
  /\ proc = [p \in Procs |-> IdleProc]
  /\ subscriptions = <<>>

NextRegister ==
  \/ ModuleRegister
  \/ ModuleCreateClient
  \/ NextProvision

SpecRegister == InitRegister /\ [][NextRegister]_vars

\* C22: a configuration with projectId absent fails at startup: no resolved
\* configuration and no client are produced, and no listener is set up.
C22_NoProjectIdFailsStartup ==
  "projectId" \notin DOMAIN config =>
    /\ module.resolved = NoClient /\ module.client = NoClient
    /\ module.pc \in {"unregistered", "failed"}
    /\ \A l \in Listeners : callbacks[l] = {}
    /\ \A p \in Procs : proc[p].pc = "idle"

\* C23: in every resolved configuration in emulator mode the port is
\* present; emulatorMode = true without a port produces no client, under
\* register and registerAsync and in both modules.
C23_EmulatorHasPort ==
  /\ (module.resolved # NoClient /\ Truthy(Get(module.resolved, "emulatorMode"))
       /\ module.pc = "ready")
      => "port" \in DOMAIN module.resolved
  /\ (Truthy(Get(config, "emulatorMode")) /\ "port" \notin DOMAIN config)
      => module.client = NoClient /\ module.pc # "ready"

(***************************************************************************)
(* Restarts: the application starts on an empty backend with               *)
(* autoCreateTopics on, and is started again once startup has succeeded.   *)
(***************************************************************************)
InitRestart ==
  /\ msg = [m \in Msgs |-> IdleMsg]
  /\ callbacks = [l \in Listeners |-> {}]
  /\ config = [projectId |-> "p1", autoCreateTopics |-> "true"]
  /\ autoCreateTopics = AutoCreateOf(config)
  /\ declared = DeclaredOptions
  /\ handle = [l \in Listeners |-> IdleHandle]
  /\ module = ClientCreated(Registered(NewModule("full", "register"), config))
  /\ naming = DeclaredNames
  /\ topics = {}
  /\ subs = [s \in {} |-> NewSubscription("orders", ExistingOptions)]
  /\ proc = [p \in Procs |-> IdleProc]
  /\ subscriptions = <<>>

NextRestart ==
  \/ NextProvision
  \/ Restart
  \/ DispatchReturned

SpecRestart == InitRestart /\ [][NextRestart]_vars

CreateCalls(p) ==
  {k \in 1..Len(proc[p].calls) :
     proc[p].calls[k].op \in {"topic.create", "subscription.create"}}

\* The calls p issues in this step.
IssuedNow(p) ==
  IF Len(proc'[p].calls) > Len(proc[p].calls)
  THEN {proc'[p].calls[k] : k \in (Len(proc[p].calls) + 1)..Len(proc'[p].calls)}
  ELSE {}

\* C25: provisioning is idempotent across restarts: a startup after one that
\* succeeded makes no topic.create and no subscription.create call, and no
\* step (of a later dispatchEvent too) issues a create for a topic or
\* subscription that a call which ran to its end has dealt with before.
C25_NoCreateOnceEnsured ==
  /\ [](module.run >= 2 => CreateCalls("x") = {} /\ CreateCalls("b") = {})
  /\ [][\A p \in Procs : \A c \in IssuedNow(p) :
          c.op \in {"topic.create", "subscription.create"} =>
            c.target \notin module.ensured]_vars

\* The second startup has succeeded, having found every topic and
\* subscription of A, N and B, and a dispatchEvent to a topic published to
\* before has published with two calls.
C25_Witness ==
  /\ module.run = 2
  /\ proc["x"].pc = "done" /\ Len(proc["x"].calls) = 6
  /\ proc["b"].pc = "done" /\ Len(proc["b"].calls) = 4
  /\ proc["p"].pc = "done" /\ proc["p"].topic = "users"
  /\ "users" \in module.ensured /\ Len(proc["p"].calls) = 2

(***************************************************************************)
(* Two descriptors for one subscription: A and N declare the names they    *)
(* have elsewhere, or N declares the topic and subscription of A.          *)
(***************************************************************************)
InitShared ==
  /\ msg = [m \in Msgs |-> IdleMsg]
  /\ callbacks = [l \in Listeners |-> {}]
  /\ config = [projectId |-> "p1", autoCreateTopics |-> "true"]
  /\ autoCreateTopics = AutoCreateOf(config)
  /\ declared = DeclaredOptions
  /\ handle = [l \in Listeners |-> IdleHandle]
  /\ module = ClientCreated(Registered(NewModule("full", "register"), config))
  /\ naming \in {DeclaredNames, SharedNames}
  /\ topics \in {{}, {"orders"}}
  /\ \E S \in {{}, {"orders-sub"}} :
       subs = [s \in S |-> NewSubscription("orders", ExistingOptions)]
  /\ proc = [p \in Procs |-> IdleProc]
  /\ subscriptions = <<>>

SpecShared == InitShared /\ [][NextMerge]_vars

\* The decorated instances in the order of the registry.
DecoratedInOrder ==
  LET ps == SelectSeq(Providers,
                      LAMBDA p : p.instance # "none" /\ HasMetadata(p.instance))
  IN [k \in 1..Len(ps) |-> ps[k].instance]
RecordedInOrder == [k \in 1..Len(subscriptions) |-> subscriptions[k].listener]
ExplorerCreatesOn(s) ==
  {k \in 1..Len(proc["x"].calls) :
     proc["x"].calls[k].op = "subscription.create" /\ proc["x"].calls[k].target = s}

\* C29: after a successful PubSubExplorer.onModuleInit the recorded list
\* holds exactly one handle per decorated instance, in registry order, each
\* for the subscription the instance declares and each attached; providers
\* without decorator or without instance get no backend call and no handle;
\* nothing is deduplicated: two descriptors naming one subscription give at
\* most one create call for it and two recorded, attached handles.
C29_OneHandlePerDecorated ==
  /\ \A k \in 1..Len(proc["x"].calls) :
       proc["x"].calls[k].tag \in {"A", "N"}
  /\ Len(RecordedInOrder) <= Len(DecoratedInOrder)
  /\ RecordedInOrder = SubSeq(DecoratedInOrder, 1, Len(RecordedInOrder))
  /\ \A s \in SubNames : Cardinality(ExplorerCreatesOn(s)) <= 1
  /\ proc["x"].pc = "done" =>
       /\ RecordedInOrder = DecoratedInOrder
       /\ \A k \in 1..Len(subscriptions) :
            /\ subscriptions[k].subscription =
                 Metadata(subscriptions[k].listener).subscriptionName
            /\ Attached(subscriptions[k].listener)
       /\ naming = SharedNames =>
            /\ Len(subscriptions) = 2
            /\ subscriptions[1].subscription = subscriptions[2].subscription

\* A and N name the same subscription, which did not exist: the Explorer
\* created it once, for A, and recorded and attached a handle for each.
C29_Witness ==
  /\ naming = SharedNames /\ proc["x"].pc = "done"
  /\ subscriptions = <<[subscription |-> "orders-sub", listener |-> "A"],
                       [subscription |-> "orders-sub", listener |-> "N"]>>
  /\ Attached("A") /\ Attached("N")
  /\ Cardinality(ExplorerCreatesOn("orders-sub")) = 1
  /\ \E k \in ExplorerCreatesOn("orders-sub") : proc["x"].calls[k].tag = "A"

(***************************************************************************)
(* Failures of every kind: message m1 is delivered to an attached          *)
(* listener and its handler throws, or rejects with, any failure value.    *)
(***************************************************************************)
NextErrors ==
  \/ \E l \in Listeners, b \in Bodies("m1") :
       ExplorerOnMessage("m1", l, b) \/ BaseOnMessage("m1", l, b)
  \/ ExplorerOnHandlerRejected("m1")
  \/ BaseOnHandlerRejected("m1")
  \/ HandlerReturn("m1")
  \/ \E e \in FailureValues : HandlerThrow("m1", e)

SpecErrors == InitDispatch /\ [][NextErrors]_vars

\* The failure the callback caught for message m, once its catch block ran.
Caught(m) == msg[m].pc = "done" /\ msg[m].path \in {"parseFailed", "handlerFailed"}

\* C30: normalizeError is total: for every failure value it returns a
\* record whose message is a string, which is what the catch block logs;
\* the stack is the value's stack for an Error instance, the value's stack
\* when that is a string for an object with a string message, and absent
\* otherwise.
C30_NormalizeErrorTotal ==
  \A m \in Msgs : Caught(m) =>
    LET e == msg[m].err
        n == normalizeError(e)
    IN /\ IsString(n.message)
       /\ n.stack = IF e.type = "Error" THEN e.stack
                    ELSE IF e.type = "object" /\ IsString(e.message) /\ IsString(e.stack)
                    THEN e.stack
                    ELSE Undefined
       /\ msg[m].log # <<>>
       /\ msg[m].log[Len(msg[m].log)].stack = n.stack
       /\ msg[m].path = "handlerFailed" =>
            msg[m].log[Len(msg[m].log)].message = n.message

(***************************************************************************)
(* Two callers of dispatchEvent side by side, on an empty backend with     *)
(* autoCreateTopics on.                                                    *)
(***************************************************************************)
InitSideBySide ==
  /\ msg = [m \in Msgs |-> IdleMsg]
  /\ callbacks = [l \in Listeners |-> {}]
  /\ config = [projectId |-> "p1", autoCreateTopics |-> "true"]
  /\ autoCreateTopics = AutoCreateOf(config)
  /\ declared = DeclaredOptions
  /\ handle = [l \in Listeners |-> IdleHandle]
  /\ module = ClientCreated(Registered(NewModule("full", "register"), config))
  /\ naming = DeclaredNames
  /\ topics = {}
  /\ subs = [s \in {} |-> NewSubscription("orders", ExistingOptions)]
  /\ proc = [p \in Procs |-> IdleProc]
  /\ subscriptions = <<>>

NextSideBySide ==
  \E c \in Callers :
    \/ \E input \in PublishInputs : dispatchEvent(c, input)
    \/ PublisherOnTopicExists(c)
    \/ PublisherOnTopicCreated(c)
    \/ PublisherOnPublished(c)

SpecSideBySide == InitSideBySide /\ [][NextSideBySide]_vars

\* The topic.create() calls made on topic t, by caller and position.
TopicCreatesOn(t) ==
  {ck \in Callers \X (1..3) :
     /\ ck[2] <= Len(proc[ck[1]].calls)
     /\ proc[ck[1]].calls[ck[2]].op = "topic.create"
     /\ proc[ck[1]].calls[ck[2]].target = t}

\* C31: for any interleaving of dispatchEvent calls made side by side to
\* one topic that is not there, with autoCreateTopics on, topic.create() is
\* invoked at most once, and no call fails because another one created the
\* topic between its exists() and its create(): a call fails only when the
\* backend fails one of its calls or when its payload does not serialize.
C31_ConcurrentDispatchCreatesOnce ==
  /\ \A t \in Topics : Cardinality(TopicCreatesOn(t)) <= 1
  /\ \A c \in Callers :
       proc[c].pc = "failed" => proc[c].err \in {BackendErr, BufferTypeErr}

(***************************************************************************)
(* Setups side by side: the Explorer's and the base listener's             *)
(* onModuleInit run together on an empty backend with autoCreateTopics     *)
(* on; B declares the topic of A, or the topic and the subscription of A.  *)
(***************************************************************************)
InitRace ==
  /\ msg = [m \in Msgs |-> IdleMsg]
  /\ callbacks = [l \in Listeners |-> {}]
  /\ config = [projectId |-> "p1", autoCreateTopics |-> "true"]
  /\ autoCreateTopics = AutoCreateOf(config)
  /\ declared = DeclaredOptions
  /\ handle = [l \in Listeners |-> IdleHandle]
  /\ module = ClientCreated(Registered(NewModule("full", "register"), config))
  /\ naming \in {DeclaredNames, BaseSharesNames}
  /\ topics \in {{}, {"orders"}}
  /\ subs = [s \in {} |-> NewSubscription("orders", ExistingOptions)]
  /\ proc = [p \in Procs |-> IdleProc]
  /\ subscriptions = <<>>

SpecRace == InitRace /\ [][NextMerge]_vars

\* C32: two listener setups that run side by side and target the same
\* absent subscription, or the same absent topic with autoCreateTopics on,
\* both complete and attach their callbacks, against a backend that
\* rejects creating what exists: a setup fails only when the backend fails
\* one of its calls, and a setup that ended has attached its callback.
C32_ConcurrentSetupsBothAttach ==
  /\ \A p \in {"x", "b"} : proc[p].pc = "failed" => proc[p].err = BackendErr
  /\ proc["b"].pc = "done" => Attached("B")
  /\ proc["x"].pc = "done" => Attached("A") /\ Attached("N")

FoundTopicMissing(p) == Len(proc[p].calls) >= 1 /\ proc[p].calls[1].res = "false"

CallsFor(l) ==
  SelectSeq(proc[IF l = "B" THEN "b" ELSE "x"].calls, LAMBDA c : c.tag = l)
\* The position of the first call of cs that is one of ops and was answered
\* by one of answers; 0 when there is none.
FirstCall(cs, ops, answers) ==
  LET ks == {k \in 1..Len(cs) : cs[k].op \in ops /\ cs[k].res \in answers}
  IN IF ks = {} THEN 0 ELSE CHOOSE k \in ks : \A j \in ks : k <= j
TopicEnsuredAt(l) == FirstCall(CallsFor(l), {"topic.exists", "topic.create"}, {"true", "ok"})
SubscriptionEnsuredAt(l) ==
  FirstCall(CallsFor(l), {"subscription.exists", "subscription.create"}, {"true", "ok"})
CallbackAttachedAt(l) == FirstCall(CallsFor(l), {"subscription.on:message"}, {"ok"})
DeclaredFor(l) == IF l = "B" THEN BaseListenerFields ELSE Metadata(l)

\* C24: listener setup goes topic ensured, subscription ensured, callback
\* attached, handle recorded: the subscription is looked at only once the
\* topic is known to exist, the message callback is attached only after
\* topic and subscription are known to exist (found or created) and do
\* exist, and a handle is in the Explorer's list only if its message
\* callback is attached.
C24_SetupOrder ==
  \A l \in Listeners :
    /\ SubscriptionEnsuredAt(l) # 0 =>
         0 < TopicEnsuredAt(l) /\ TopicEnsuredAt(l) < SubscriptionEnsuredAt(l)
    /\ \A k \in 1..Len(CallsFor(l)) :
         CallsFor(l)[k].op \in {"subscription.exists", "subscription.create"} =>
           0 < TopicEnsuredAt(l) /\ TopicEnsuredAt(l) < k
    /\ Attached(l) <=> CallbackAttachedAt(l) # 0
    /\ Attached(l) =>
         /\ 0 < SubscriptionEnsuredAt(l)
         /\ SubscriptionEnsuredAt(l) < CallbackAttachedAt(l)
         /\ DeclaredFor(l).topicName \in topics
         /\ DeclaredFor(l).subscriptionName \in DOMAIN subs
    /\ l \in Recorded => Attached(l)

\* The Explorer created topic and subscription of A, found those of N or
\* created them, and attached and recorded both; B's listener is attached.
C24_Witness ==
  /\ proc["x"].pc = "done" /\ Recorded = {"A", "N"}
  /\ Attached("A") /\ Attached("N") /\ Attached("B")
  /\ Len(CallsFor("A")) = 5
  /\ CallsFor("A")[2].op = "topic.create" /\ CallsFor("A")[4].op = "subscription.create"
  /\ TopicEnsuredAt("A") = 2 /\ SubscriptionEnsuredAt("A") = 4
  /\ CallbackAttachedAt("A") = 5
\* C26: messages are processed independently: while the handler of one
\* message is suspended, any other message, on the same subscription or on
\* another, can be delivered, parsed and handled, its failure is caught and
\* nacked, and its handler can finish, none of which waits for the first.
C26_IndependentMessages ==
  \A m \in Msgs : msg[m].pc = "handling" =>
    \A n \in Msgs \ {m} :
      /\ msg[n].pc = "idle" =>
           \A l \in Listeners, b \in Bodies(n) :
             ENABLED (ExplorerOnMessage(n, l, b) \/ BaseOnMessage(n, l, b))
      /\ msg[n].pc = "rejected" =>
           ENABLED (ExplorerOnHandlerRejected(n) \/ BaseOnHandlerRejected(n))
      /\ msg[n].pc = "handling" =>
           ENABLED HandlerReturn(n) /\ ENABLED HandlerThrow(n, ErrFail)

\* With the handler of m1 suspended on A, m2 came in on the same
\* subscription, its handler failed and it was nacked.
C26_Witness ==
  /\ msg["m1"].pc = "handling" /\ msg["m1"].listener = "A"
  /\ msg["m2"].pc = "done" /\ msg["m2"].listener = "A"
  /\ msg["m2"].path = "handlerFailed" /\ msg["m2"].coreNack = 1
\* C27: the handler is invoked exactly once per delivery whose payload
\* parses, with the parsed payload and the message, and not at all when the
\* payload does not parse; it is never invoked twice, also not after it
\* failed.
C27_HandlerAtMostOnce ==
  \A m \in Msgs :
    LET r == msg[m] IN
    /\ r.handlerCalls <= 1
    /\ r.pc # "idle" =>
         /\ (JsonParse(r.data).ok /\ HasHandle(r.listener)) =>
              /\ r.handlerCalls = 1
              /\ r.arg = JsonParse(r.data).v /\ r.argMsg = m
         /\ ~JsonParse(r.data).ok =>
              r.handlerCalls = 0 /\ r.pc = "done" /\ r.path = "parseFailed"
         /\ r.path = "handlerFailed" /\ HasHandle(r.listener) => r.handlerCalls = 1

\* On B the handler of m1 was called once and failed, and m2, whose body is
\* no JSON, was nacked without a call of the handler.
C27_Witness ==
  /\ msg["m1"].pc = "done" /\ msg["m1"].listener = "B"
  /\ msg["m1"].path = "handlerFailed" /\ msg["m1"].handlerCalls = 1
  /\ msg["m2"].pc = "done" /\ msg["m2"].listener = "B"
  /\ msg["m2"].path = "parseFailed" /\ msg["m2"].handlerCalls = 0
\* What merging record over key by key into the default record gives.
KeyByKey(default, over) == Spread(default, over)

\* C28: in the subscription-options merge every nested sub-record that both
\* the defaults and the listener's override define is merged key by key:
\* an override of one key of messageRetentionDuration, of
\* retryPolicy.minimumBackoff or of retryPolicy.maximumBackoff keeps the
\* other keys of the default record.
C28_NestedMergedKeyByKey ==
  \A c \in SubscriptionCreates :
    LET o == declared[c.tag]
        m == c.arg
    IN /\ "messageRetentionDuration" \in DOMAIN o =>
            m.messageRetentionDuration =
              KeyByKey(defaultSubscriptionOptions.messageRetentionDuration,
                       o.messageRetentionDuration)
       /\ \A b \in BackoffBounds :
            ("retryPolicy" \in DOMAIN o /\ b \in DOMAIN o.retryPolicy) =>
              m.retryPolicy[b] =
                KeyByKey(defaultSubscriptionOptions.retryPolicy[b], o.retryPolicy[b])

(***************************************************************************)
(* Startup, traffic and shutdown together: the Explorer provisions A and   *)
(* N on an empty backend while message m1 may arrive on any subscription   *)
(* that has its callback, and onModuleDestroy may be called once           *)
(* onModuleInit has resolved.                                              *)
(***************************************************************************)
NextStartup ==
  \/ ExplorerOnModuleInit
  \/ ExplorerOnTopicExists
  \/ ExplorerOnTopicCreated
  \/ ExplorerOnSubscriptionExists
  \/ ExplorerOnSubscriptionCreated
  \/ \E l \in Listeners, b \in Bodies("m1") : ExplorerOnMessage("m1", l, b)
  \/ ExplorerOnHandlerRejected("m1")
  \/ HandlerReturn("m1")
  \/ \E e \in HandlerErrors : HandlerThrow("m1", e)
  \/ ExplorerOnModuleDestroy

SpecStartup == InitLifecycle /\ [][NextStartup]_vars

\* The callback of message m is between its start and its end.
InFlight(m) == msg[m].pc \in {"handling", "rejected"}
CloseCalled(l) == l \in Listeners /\ handle[l].closeCalls > 0

\* C33: after onModuleDestroy has called close() on a subscription no
\* handler invocation for a message of that subscription is in flight, and
\* the core issues no nack() on such a message.
C33_ShutdownWaitsForHandlers ==
  /\ [](\A m \in Msgs : CloseCalled(msg[m].listener) => ~InFlight(m))
  /\ [][\A m \in Msgs :
          msg'[m].coreNack > msg[m].coreNack => ~CloseCalled(msg[m].listener)]_vars

\* C34: no handler is invoked before PubSubExplorer.onModuleInit has
\* resolved: a message arriving on an attached subscription while later
\* descriptors are being provisioned is not handed to its handler.
C34_NoHandlerBeforeStartupEnds ==
  [][\A m \in Msgs :
       msg'[m].handlerCalls > msg[m].handlerCalls => proc["x"].pc = "done"]_vars

\* C35: when onModuleInit has failed at some descriptor, the subscriptions
\* attached for the earlier descriptors stay recorded, open and
\* dispatching: every subscription that got its callback keeps it and is
\* recorded, a message that arrives is handed to the callback, and no
\* close() is called before onModuleDestroy.
C35_EarlierSubscriptionsStay ==
  /\ \A l \in Listeners :
       /\ CallbackAttachedAt(l) # 0 => Attached(l) /\ l \in Recorded
       /\ CloseCalled(l) => proc["x"].pc = "destroyed"
  /\ proc["x"].pc = "failed" =>
       \A l \in Recorded :
         /\ Attached(l) /\ ~handle[l].closed
         /\ msg["m1"].pc = "idle" =>
              \A b \in Bodies("m1") : ENABLED ExplorerOnMessage("m1", l, b)

\* onModuleInit failed at N after A was attached, and a message that came
\* in on A is with A's handler.
C35_Witness ==
  /\ proc["x"].pc = "failed" /\ proc["x"].listener = "N"
  /\ Recorded = {"A"} /\ Attached("A") /\ ~handle["A"].closed
  /\ msg["m1"].listener = "A" /\ msg["m1"].pc = "handling"

\* C37: onModuleInit does not look for a handle method: for the decorated
\* instance N, which has none, startup succeeds with N's subscription
\* attached and recorded, and every message delivered to it, its payload
\* valid or not, is logged as a handler failure and nacked exactly once by
\* the core, with no handler called and no ack.
C37_NoHandleMethod ==
  /\ ~HasHandle("N")
  /\ proc["x"].pc = "done" => "N" \in Recorded /\ Attached("N")
  /\ \A m \in Msgs :
       (msg[m].listener = "N" /\ msg[m].pc # "idle") =>
         /\ msg[m].pc = "done" /\ msg[m].handlerCalls = 0
         /\ msg[m].coreNack = 1 /\ msg[m].coreAck = 0
         /\ Len(msg[m].log) = 1
         /\ msg[m].log[1].level = "error" /\ msg[m].log[1].text = "Handler failed"

\* Startup succeeded, and a message with a valid JSON body that came in on
\* N's subscription was nacked with the TypeError of the missing method.
C37_Witness ==
  /\ proc["x"].pc = "done" /\ "N" \in Recorded
  /\ msg["m1"].listener = "N" /\ msg["m1"].pc = "done"
  /\ JsonParse(msg["m1"].data).ok /\ msg["m1"].err = NoHandleErr
  /\ msg["m1"].coreNack = 1

\* What the call of p has created in the backend so far.
CreatedBy(p) ==
  {proc[p].calls[k].target : k \in {j \in CreateCalls(p) : proc[p].calls[j].res = "ok"}}

\* C36: when dispatchEvent or a listener setup raises, the backend's topics
\* and subscriptions are those from before the call: a topic or
\* subscription the call created is not there any more when a later step
\* of the call failed.
C36_FailedCallLeavesNothing ==
  \A p \in Procs :
    proc[p].pc = "failed" => CreatedBy(p) \cap (topics \cup DOMAIN subs) = {}
====
